---- MODULE Spec2Model ----
(***************************************************************************)
(* commit-cat: staged diff -> AI review -> interactive resolution loop.    *)
(*                                                                         *)
(* The repository holds three generations of the command-line entry point. *)
(* All three are modelled; `variant` selects which one a run executes:     *)
(*   "cat"   bin/commit-cat.mjs:36  main (modular, re-entrant menu)        *)
(*   "clack" src/ui.js:376          main (v2.0, size-capped collector)     *)
(*   "smart" bin/commit-cat.mjs:623 main (first version, readline menu)    *)
(***************************************************************************)
EXTENDS Integers, Sequences, FiniteSets, TLC

VARIABLES
  variant,      \* which entry point runs
  apiKey,       \* process.env.GEMINI_API_KEY is set
  pc,           \* position of main
  exitCode,     \* -1 while running, else the process exit code
  output,       \* kinds of messages written to the terminal so far
  cancelled,    \* a prompt has returned the cancellation sentinel
  answer,       \* what the last prompt returned
  staged,       \* git index: listing of staged paths (as file kinds)
  unstaged,     \* working-tree changes below cwd that `git add .` stages
  outside,      \* working-tree changes `git status` reports but `git add .` does not reach
  stagedFiles,  \* main's local: the listing it read
  pos,          \* loop position in stagedFiles (number of files processed)
  fullDiff,     \* main's local: the payload, a sequence of segments
  totalSize,    \* main's local (clack): running total of included diff lengths
  skippedFiles, \* main's local (clack): <<file index, reason>>
  genCalls,     \* number of calls made to the generation endpoint
  prompt,       \* segments actually sent to the endpoint
  response,     \* what the endpoint answered: "none" before the call, else one of Responses
  result,       \* what the review call returned: "none", "null", "nofields", "ok"
  suggestions,  \* review.suggestions, pending
  currentMessage, \* currentMessage / finalMsg / commitMsg
  commitLog,    \* every `git commit` attempted: [msg, ok]
  stageCalls,   \* number of `git add .` executed
  writes,       \* number of fs.writeFileSync calls on source files
  content,      \* working-tree file contents, path -> sequence of lines
  tempFile,     \* .COMMIT_EDITMSG_TEMP exists
  selected,     \* the indices chosen in the multiselect of the running batch
  appliedCount, \* appliedCount / injectedCount of the last batch
  rounds,       \* number of times the action menu has been answered
  args,         \* arguments of the function applied on its own (function-level specifications)
  returned      \* what that function returned

fnVars   == <<args, returned>>
envVars  == <<variant, apiKey, staged, unstaged, outside, content, tempFile, fnVars>>
ctlVars  == <<pc, exitCode, output, cancelled, answer, rounds>>
collVars == <<stagedFiles, pos, fullDiff, totalSize, skippedFiles>>
revVars  == <<genCalls, prompt, response, result, suggestions, currentMessage, selected, appliedCount>>
effVars  == <<commitLog, stageCalls, writes>>
vars == <<variant, apiKey, pc, exitCode, output, cancelled, answer, staged, unstaged,
          outside, stagedFiles, pos, fullDiff, totalSize, skippedFiles,
          genCalls, prompt, response, result, suggestions, currentMessage, commitLog,
          stageCalls, writes, content, tempFile, selected, appliedCount, rounds,
          args, returned>>

Variants == {"cat", "clack", "smart"}

---------------------------------------------------------------------------
(* Bounds of the model *)
MaxFiles  == 5     \* longest staged listing explored by the collector specification
MaxRounds == 3     \* answers given at the action menu in one run

(* Program constants *)
MAX_FILE_SIZE  == 30000
MAX_TOTAL_SIZE == 100000
PromptCeiling  == 5000
HeadBytes      == 15000

Min(a, b) == IF a < b THEN a ELSE b

---------------------------------------------------------------------------
(* Staged paths.  A path is described by what the collector observes of it: *)
(*   ign      the path contains one of IGNORE_PATTERNS                      *)
(*   bin      path.extname is one of BINARY_EXTENSIONS                      *)
(*   statErr  fs.statSync throws (the path was deleted)                     *)
(*   size     size on disk                                                  *)
(*   diffErr  `git diff --staged <path>` throws                             *)
(*   diffLen  length of the staged diff text                                *)
(*   nameLen  length of the path, errLen length of the error message        *)
FileKind ==
  [ tiny    |-> [ign |-> FALSE, bin |-> FALSE, statErr |-> FALSE, size |-> 10,    diffErr |-> FALSE, diffLen |-> 1,     nameLen |-> 4, errLen |-> 0],
    d20k    |-> [ign |-> FALSE, bin |-> FALSE, statErr |-> FALSE, size |-> 20000, diffErr |-> FALSE, diffLen |-> 20000, nameLen |-> 4, errLen |-> 0],
    d30k    |-> [ign |-> FALSE, bin |-> FALSE, statErr |-> FALSE, size |-> 30000, diffErr |-> FALSE, diffLen |-> 30000, nameLen |-> 4, errLen |-> 0],
    d30k1   |-> [ign |-> FALSE, bin |-> FALSE, statErr |-> FALSE, size |-> 9000,  diffErr |-> FALSE, diffLen |-> 30001, nameLen |-> 4, errLen |-> 0],
    huge    |-> [ign |-> FALSE, bin |-> FALSE, statErr |-> FALSE, size |-> 30001, diffErr |-> FALSE, diffLen |-> 100,   nameLen |-> 4, errLen |-> 0],
    lock    |-> [ign |-> TRUE,  bin |-> FALSE, statErr |-> FALSE, size |-> 50000, diffErr |-> FALSE, diffLen |-> 40000, nameLen |-> 9, errLen |-> 0],
    png     |-> [ign |-> FALSE, bin |-> TRUE,  statErr |-> FALSE, size |-> 500,   diffErr |-> FALSE, diffLen |-> 60,    nameLen |-> 5, errLen |-> 0],
    distpng |-> [ign |-> TRUE,  bin |-> TRUE,  statErr |-> FALSE, size |-> 500,   diffErr |-> FALSE, diffLen |-> 60,    nameLen |-> 10, errLen |-> 0],
    gone    |-> [ign |-> FALSE, bin |-> FALSE, statErr |-> TRUE,  size |-> 0,     diffErr |-> FALSE, diffLen |-> 200,   nameLen |-> 4, errLen |-> 0],
    broken  |-> [ign |-> FALSE, bin |-> FALSE, statErr |-> FALSE, size |-> 10,    diffErr |-> TRUE,  diffLen |-> 0,     nameLen |-> 4, errLen |-> 30],
    empty   |-> [ign |-> FALSE, bin |-> FALSE, statErr |-> FALSE, size |-> 0,     diffErr |-> FALSE, diffLen |-> 0,     nameLen |-> 4, errLen |-> 0] ]

RECURSIVE SeqsUpTo(_, _)
SeqsUpTo(S, n) ==
  IF n = 0 THEN {<<>>}
  ELSE LET shorter == SeqsUpTo(S, n - 1)
       IN shorter \cup {Append(s, x) : s \in {t \in shorter : Len(t) = n - 1}, x \in S}

---------------------------------------------------------------------------
(* Payload segments.  The payload is a string; the model keeps, for every  *)
(* staged file that contributed to it, the number of characters of header, *)
(* of text and of trailer, whether the text is diff text (and not a        *)
(* placeholder), and the full length of the file's diff.                   *)
Seg(file, hdr, len, tail, isDiff, full) ==
  [file |-> file, hdr |-> hdr, len |-> len, tail |-> tail, isDiff |-> isDiff, full |-> full]

SegLen(g) == g.hdr + g.len + g.tail

RECURSIVE StrLen(_)
StrLen(segs) == IF segs = <<>> THEN 0 ELSE SegLen(Head(segs)) + StrLen(Tail(segs))

(* String.prototype.substring(0, limit) on a payload, and `head -c limit` *)
RECURSIVE substring(_, _)
substring(segs, limit) ==
  IF segs = <<>> \/ limit <= 0 THEN <<>>
  ELSE LET g == Head(segs)
           h == Min(g.hdr, limit)
           l == Min(g.len, limit - h)
           t == Min(g.tail, limit - h - l)
       IN <<Seg(g.file, h, l, t, g.isDiff, g.full)>> \o substring(Tail(segs), limit - SegLen(g))

(* diff length of the files whose diff text is in a payload *)
RECURSIVE IncludedDiffLen(_)
IncludedDiffLen(segs) ==
  IF segs = <<>> THEN 0
  ELSE (IF Head(segs).isDiff THEN Head(segs).len ELSE 0) + IncludedDiffLen(Tail(segs))

(* fault: a failing fs.statSync is not caught as a read failure *)
ui_getFileDiffStatIgnored(k) ==
  LET f == FileKind[k] IN
  IF f.ign THEN [skip |-> TRUE, reason |-> "ignored", len |-> 0]
  ELSE IF f.bin THEN [skip |-> TRUE, reason |-> "binary", len |-> 0]
  ELSE IF f.size > MAX_FILE_SIZE THEN [skip |-> TRUE, reason |-> "too large", len |-> 0]
  ELSE IF f.diffErr THEN [skip |-> TRUE, reason |-> "error reading", len |-> 0]
  ELSE IF f.diffLen > MAX_FILE_SIZE THEN [skip |-> TRUE, reason |-> "diff too large", len |-> 0]
  ELSE [skip |-> FALSE, reason |-> "none", len |-> f.diffLen]

(* src/ui.js:247-274 getFileDiff on a path with the attributes f *)
ui_getFileDiffOn(f) ==
  IF f.statErr THEN [skip |-> TRUE, reason |-> "error reading", len |-> 0]
  ELSE IF f.ign THEN [skip |-> TRUE, reason |-> "ignored", len |-> 0]
  ELSE IF f.bin THEN [skip |-> TRUE, reason |-> "binary", len |-> 0]
  ELSE IF f.size > MAX_FILE_SIZE THEN [skip |-> TRUE, reason |-> "too large", len |-> 0]
  ELSE IF f.diffErr THEN [skip |-> TRUE, reason |-> "error reading", len |-> 0]
  ELSE IF f.diffLen > MAX_FILE_SIZE THEN [skip |-> TRUE, reason |-> "diff too large", len |-> 0]
  ELSE [skip |-> FALSE, reason |-> "none", len |-> f.diffLen]

(* src/ui.js getFileDiff: the filters of the capped collector *)
ui_getFileDiff(k) == ui_getFileDiffOn(FileKind[k])

(* src/git.js:7-26 getFileDiff on a path with the attributes f: always a   *)
(* string, the diff or a placeholder; `reason` names the placeholder       *)
git_getFileDiffOn(f) ==
  IF f.bin THEN [isDiff |-> FALSE, reason |-> "binary", len |-> 15 + f.nameLen]
  ELSE IF f.ign THEN [isDiff |-> FALSE, reason |-> "ignored", len |-> 16 + f.nameLen]
  ELSE IF f.diffErr THEN [isDiff |-> FALSE, reason |-> "error reading", len |-> 27 + f.nameLen + f.errLen]
  ELSE IF f.diffLen = 0 THEN [isDiff |-> FALSE, reason |-> "no content", len |-> 39 + f.nameLen]
  ELSE [isDiff |-> TRUE, reason |-> "none", len |-> f.diffLen]

(* src/git.js getFileDiff: always returns a string, a diff or a placeholder *)
git_getFileDiff(k) == git_getFileDiffOn(FileKind[k])

(* `git diff --staged` of the whole index: the per-file diffs in listing order *)
RECURSIVE gitDiffStaged(_, _)
gitDiffStaged(listing, i) ==
  IF i > Len(listing) THEN <<>>
  ELSE LET n == FileKind[listing[i]].diffLen
       IN <<Seg(i, 0, n, 0, TRUE, n)>> \o gitDiffStaged(listing, i + 1)

---------------------------------------------------------------------------
(* Messages are strings.  A piece without a special character stands for  *)
(* the characters it is written with; the piece "<bq>" is the backtick.    *)
(* no function is applied on its own in a run of main *)
NoCall == <<>>

NoMessage == <<>>
(* the value of a missing commitMessage field, as a template literal renders it *)
Undefined == <<"undefined">>
(* commitMessage of a well-formed answer: "fix" and a word between backticks *)
commitMessage == <<"f", "<bq>", "x", "<bq>">>
(* the fallback of the first version: "chore: code update" *)
FallbackMessage == <<"chore:", " ", "code", " ", "update">>

(* what the editor may leave in the temporary file *)
EditedTexts ==
  { <<" ", "e", "\n">>,
    <<"a", "\"", "b">>,
    <<"$", "x">>,
    <<"a", "\n", "b">> }

---------------------------------------------------------------------------
(* Prompt answers.  A prompt returns a value or the cancellation sentinel. *)
Answer(v) == [isCancel |-> FALSE, v |-> v]
NoAnswer == [isCancel |-> FALSE, v |-> "none"]
CancelSymbol == [isCancel |-> TRUE, v |-> "symbol"]
(* the sentinel where a multiselect's array was expected: its .length is undefined *)
CancelSelection == [isCancel |-> TRUE, v |-> <<>>]

(* fault: handleCancel returns the sentinel to its caller instead of exiting *)
handleCancelNoExit(value) == FALSE

(* src/utils.js handleCancel (and src/ui.js:174): TRUE when the call ends the process *)
handleCancel(value) == value.isCancel

(* fault: the test on a confirm's answer is inverted *)
TruthyInverted(value) == ~(value.isCancel \/ value.v # "no")

(* fault: the test on a confirm's answer accepts every answer *)
TruthyAlways(value) == TRUE

(* JavaScript truthiness of a confirm's answer; the sentinel is a Symbol *)
Truthy(value) == value.isCancel \/ value.v # "no"

ExitWith(code, msg) ==
  /\ pc' = "exited"
  /\ exitCode' = code
  /\ output' = output \cup {msg}

(* An exception that leaves main: main().catch(console.error) in the two   *)
(* clack entry points, the try/catch around the whole of main in the first *)
Throw ==
  IF variant = "smart" THEN ExitWith(1, "error") ELSE ExitWith(0, "console.error")

---------------------------------------------------------------------------
(* Strings are sequences of characters; a file is a sequence of lines.     *)
(* white space as String.prototype.trim and the regular expression \s see it *)
IsSpace(c) == c \in {" ", "\t", "\n"}

RECURSIVE trimStart(_)
trimStart(str) ==
  IF str # <<>> /\ IsSpace(Head(str)) THEN trimStart(Tail(str)) ELSE str

RECURSIVE trimEnd(_)
trimEnd(str) ==
  IF str # <<>> /\ IsSpace(str[Len(str)]) THEN trimEnd(SubSeq(str, 1, Len(str) - 1)) ELSE str

(* fault: the text is used as it was read, white space included *)
trimNothing(str) == str

(* String.prototype.trim *)
trim(str) == trimEnd(trimStart(str))

(* fault: the empty string is contained in nothing *)
includesNonEmpty(str, sub) ==
  /\ sub # <<>>
  /\ \E i \in 1..(Len(str) + 1) :
       /\ i + Len(sub) - 1 <= Len(str)
       /\ SubSeq(str, i, i + Len(sub) - 1) = sub

(* String.prototype.includes *)
includes(str, sub) ==
  \E i \in 1..(Len(str) + 1) :
    /\ i + Len(sub) - 1 <= Len(str)
    /\ SubSeq(str, i, i + Len(sub) - 1) = sub

(* fault: the indentation of the matched line is not copied *)
indentOfNothing(line) == <<>>

(* line.match(/^\s*/)[0]: the leading whitespace of a line *)
indentOf(line) == SubSeq(line, 1, Len(line) - Len(trimStart(line)))

(* lines.findIndex(l => l.includes(sub)), 1-based; 0 when there is none *)
findIndex(lines, sub) ==
  IF \E i \in 1..Len(lines) : includes(lines[i], sub)
  THEN CHOOSE i \in 1..Len(lines) :
         /\ includes(lines[i], sub)
         /\ \A j \in 1..(i - 1) : ~includes(lines[j], sub)
  ELSE 0

(* lines.splice(at, 0, line), `at` 1-based *)
splice(lines, at, line) ==
  SubSeq(lines, 1, at - 1) \o <<line>> \o SubSeq(lines, at, Len(lines))

Digits == <<"0", "1", "2", "3", "4", "5", "6", "7", "8", "9">>
IsDigit(c) == \E d \in 1..10 : Digits[d] = c
DigitVal(c) == (CHOOSE d \in 1..10 : Digits[d] = c) - 1

NaN == [nan |-> TRUE, val |-> 0]
Num(n) == [nan |-> FALSE, val |-> n]

RECURSIVE parseDigits(_, _, _)
parseDigits(str, acc, seen) ==
  IF str # <<>> /\ IsDigit(Head(str))
  THEN parseDigits(Tail(str), acc * 10 + DigitVal(Head(str)), TRUE)
  ELSE IF seen THEN Num(acc) ELSE NaN

(* parseInt(string): leading blanks, an optional sign, the leading digits *)
parseInt(str) ==
  LET t == trimStart(str) IN
  IF t # <<>> /\ Head(t) = "-"
  THEN LET v == parseDigits(Tail(t), 0, FALSE) IN IF v.nan THEN v ELSE Num(0 - v.val)
  ELSE IF t # <<>> /\ Head(t) = "+" THEN parseDigits(Tail(t), 0, FALSE)
  ELSE parseDigits(t, 0, FALSE)

---------------------------------------------------------------------------
(* Working-tree paths a finding may name: a.js, b.py, lib (a directory), gone.js *)
(* fs.existsSync: "gone.js" is not in the working tree *)
existsSync(path) == path # "gone.js"

(* fs.readFileSync throws on a directory *)
readThrows(path) == path = "lib"

(* path.extname(filePath).toLowerCase() *)
extname(path) ==
  IF path = "b.py" THEN ".py"
  ELSE IF path \in {"a.js", "gone.js"} THEN ".js"
  ELSE ""

(* the text in front of the message: src/git.js:30, src/ui.js:278,         *)
(* bin/commit-cat.mjs:555                                                  *)
todoTag == IF variant = "smart" THEN "TODO: [AI Suggestion]" ELSE "TODO: [AI]"

(* getCommentSyntax from the lower-cased extension on: src/git.js:32-48,   *)
(* src/ui.js:280-297; the first version, bin/commit-cat.mjs:557-575, uses  *)
(* the markup style for .html and .xml as well                             *)
commentSyntax(ext, message) ==
  IF ext \in {".yml", ".yaml", ".py", ".sh", ".rb", ".dockerfile", ".toml"}
  THEN <<"#", " ", todoTag, message>>
  ELSE IF ext \in {".css", ".scss", ".less", ".saas"}
  THEN <<"/", "*", " ", todoTag, message, " ", "*", "/">>
  ELSE IF ext = ".md" \/ (variant = "smart" /\ ext \in {".html", ".xml"})
  THEN <<"<", "!", "-", "-", " ", todoTag, message, " ", "-", "-", ">">>
  ELSE <<"/", "/", " ", todoTag, message>>

(* getCommentSyntax: the comment line for a message, by extension *)
getCommentSyntax(filePath, message) == commentSyntax(extname(filePath), message)

Finding(message, filePath, lineNumber, contextLine) ==
  [message |-> message, filePath |-> filePath,
   lineNumber |-> lineNumber, contextLine |-> contextLine]

(* fault: a context line that is not found still counts as injected *)
injectByContextAlwaysInjected(item, lines, todo) ==
  LET lineIdx == IF item.contextLine # <<>> THEN findIndex(lines, trim(item.contextLine)) ELSE 0
  IN IF lineIdx # 0
     THEN [injected |-> TRUE, lines |-> splice(lines, lineIdx, indentOf(lines[lineIdx]) \o todo)]
     ELSE [injected |-> TRUE, lines |-> lines]

(* the context-line rule of the injector (all three entry points) *)
injectByContext(item, lines, todo) ==
  LET lineIdx == IF item.contextLine # <<>> THEN findIndex(lines, trim(item.contextLine)) ELSE 0
  IN IF lineIdx # 0
     THEN [injected |-> TRUE, lines |-> splice(lines, lineIdx, indentOf(lines[lineIdx]) \o todo)]
     ELSE [injected |-> FALSE, lines |-> lines]

(* the line-number rule (bin/commit-cat.mjs:274, src/ui.js:629) *)
injectByLineNumber(item, lines, todo) ==
  LET n == IF item.lineNumber # <<>> THEN parseInt(item.lineNumber) ELSE NaN
      l == n.val - 1
  IN IF ~n.nan /\ l >= 0 /\ l < Len(lines) /\ lines[l + 1] # <<>>
     THEN [injected |-> TRUE, lines |-> splice(lines, l + 1, todo)]
     ELSE [injected |-> FALSE, lines |-> lines]

(* the body of selected.forEach for one readable file *)
injectOne(item, lines) ==
  LET todo == getCommentSyntax(item.filePath, item.message)
      byCtx == injectByContext(item, lines, todo)
  IN IF byCtx.injected THEN byCtx ELSE injectByLineNumber(item, lines, todo)

---------------------------------------------------------------------------
(* Initial state: the process has started, nothing has run yet.            *)
RangeOf(seq) == {seq[i] : i \in DOMAIN seq}

(* index and working tree before the run: <<staged, unstaged>> *)
InitTrees ==
  { << <<>>, <<>> >>,
    << <<>>, <<"tiny">> >>,
    << <<"tiny", "png">>, <<>> >>,
    << <<"png", "lock">>, <<>> >>,
    << <<"d30k1", "broken">>, <<"empty">> >> }

(* a.js: "function f() {" / "  return 1;" / "}" ;  b.py: "r" and a final empty line *)
InitContent ==
  [path \in {"a.js", "b.py"} |->
     IF path = "a.js" THEN << <<"f">>, <<" ", " ", "r">>, <<"}">> >>
     ELSE << <<"r">>, <<>> >>]

Init ==
  /\ variant \in Variants
  /\ apiKey \in BOOLEAN
  /\ pc = "start"
  /\ exitCode = -1
  /\ output = {}
  /\ cancelled = FALSE
  /\ answer = NoAnswer
  /\ \E tree \in InitTrees : staged = tree[1] /\ unstaged = tree[2]
  /\ outside \in BOOLEAN
  /\ stagedFiles = <<>>
  /\ pos = 0
  /\ fullDiff = <<>>
  /\ totalSize = 0
  /\ skippedFiles = <<>>
  /\ genCalls = 0
  /\ prompt = <<>>
  /\ response = "none"
  /\ result = "none"
  /\ suggestions = <<>>
  /\ currentMessage = NoMessage
  /\ commitLog = <<>>
  /\ stageCalls = 0
  /\ writes = 0
  /\ content = InitContent
  /\ tempFile = FALSE
  /\ selected = <<>>
  /\ appliedCount = 0
  /\ rounds = 0
  /\ args = NoCall
  /\ returned = NoCall

(* `git add .`: everything changed below cwd enters the index *)
gitAddAll(index, tree) == index \o SelectSeq(tree, LAMBDA x : x \notin RangeOf(index))

---------------------------------------------------------------------------
(* fault: the credential is not checked before staging *)
CheckApiKeySkipped ==
  /\ pc = "start"
  /\ pc' = "stage"
  /\ output' = output \cup {"title"}
  /\ UNCHANGED <<envVars, collVars, revVars, effVars, exitCode, cancelled, answer, rounds>>

(* The credential check: bin/commit-cat.mjs:37-43, src/ui.js:398-405,      *)
(* bin/commit-cat.mjs:335-343                                              *)
CheckApiKey ==
  /\ pc = "start"
  /\ IF ~apiKey
     THEN ExitWith(1, "no_api_key")
     ELSE /\ pc' = "stage"
          /\ output' = output \cup {"title"}
          /\ exitCode' = exitCode
  /\ UNCHANGED <<envVars, collVars, revVars, effVars, cancelled, answer, rounds>>

(* 1. STAGE CHECK up to its prompt: bin/commit-cat.mjs:45-57,              *)
(* src/ui.js:413-415; the first version stages and reads the diff at once, *)
(* bin/commit-cat.mjs:636-643                                              *)
StageCheck ==
  /\ pc = "stage"
  /\ \E listOk \in BOOLEAN, statusOk \in BOOLEAN :
       CASE variant = "cat" ->
              /\ IF ~listOk THEN ExitWith(1, "error")
                 ELSE IF staged # <<>>
                 THEN pc' = "getDiff" /\ UNCHANGED <<exitCode, output>>
                 ELSE IF ~statusOk THEN ExitWith(1, "error")
                 ELSE IF unstaged = <<>> /\ ~outside THEN ExitWith(0, "nothing_to_commit")
                 ELSE /\ pc' = "confirmStage"
                      /\ output' = output \cup {"no_staged"}
                      /\ exitCode' = exitCode
              /\ UNCHANGED <<staged, unstaged, stageCalls, collVars>>
         [] variant = "clack" ->
              /\ stagedFiles' = IF listOk THEN staged ELSE <<>>
              /\ pc' = IF stagedFiles' = <<>> THEN "confirmStage" ELSE "collect"
              /\ UNCHANGED <<exitCode, output, staged, unstaged, stageCalls,
                             pos, fullDiff, totalSize, skippedFiles>>
         [] variant = "smart" ->
              IF ~listOk
              THEN /\ ExitWith(1, "error")
                   /\ UNCHANGED <<staged, unstaged, stageCalls, collVars>>
              ELSE /\ staged' = gitAddAll(staged, unstaged)
                   /\ unstaged' = <<>>
                   /\ stageCalls' = stageCalls + 1
                   /\ IF ~statusOk
                      THEN ExitWith(1, "error") /\ UNCHANGED collVars
                      ELSE LET diff == substring(gitDiffStaged(staged', 1), HeadBytes)
                           IN /\ stagedFiles' = staged'
                              /\ fullDiff' = diff
                              /\ UNCHANGED <<pos, totalSize, skippedFiles>>
                              /\ IF StrLen(diff) = 0
                                 THEN ExitWith(0, "no_changes")
                                 ELSE pc' = "request" /\ UNCHANGED <<exitCode, output>>
  /\ UNCHANGED <<fnVars, variant, apiKey, outside, content, tempFile, revVars,
                 commitLog, writes, cancelled, answer, rounds>>

(* the stage-all confirm and what follows it: bin/commit-cat.mjs:58-79,    *)
(* src/ui.js:416-442                                                       *)
ConfirmStage ==
  /\ pc = "confirmStage"
  /\ \E shouldStage \in {Answer("yes"), Answer("no"), CancelSymbol},
        addOk \in BOOLEAN, listOk \in BOOLEAN :
       /\ cancelled' = (cancelled \/ shouldStage.isCancel)
       /\ answer' = shouldStage
       /\ IF handleCancel(shouldStage)
          THEN /\ ExitWith(0, "cancelled")
               /\ UNCHANGED <<staged, unstaged, stageCalls, stagedFiles>>
          ELSE IF ~Truthy(shouldStage)
          THEN /\ ExitWith(0, IF variant = "cat" THEN "cancelled" ELSE "aborted")
               /\ UNCHANGED <<staged, unstaged, stageCalls, stagedFiles>>
          ELSE IF ~addOk
          THEN /\ IF variant = "cat" THEN ExitWith(1, "error") ELSE Throw
               /\ UNCHANGED <<staged, unstaged, stageCalls, stagedFiles>>
          ELSE /\ staged' = gitAddAll(staged, unstaged)
               /\ unstaged' = <<>>
               /\ stageCalls' = stageCalls + 1
               /\ IF variant = "cat"
                  THEN /\ pc' = "getDiff"
                       /\ output' = output \cup {"staged"}
                       /\ UNCHANGED <<exitCode, stagedFiles>>
                  ELSE /\ stagedFiles' = IF listOk THEN staged' ELSE <<>>
                       /\ IF stagedFiles' = <<>>
                          THEN ExitWith(0, "no_changes")
                          ELSE /\ pc' = "collect"
                               /\ output' = output \cup {"staged"}
                               /\ exitCode' = exitCode
  /\ UNCHANGED <<fnVars, variant, apiKey, outside, content, tempFile, revVars,
                 pos, fullDiff, totalSize, skippedFiles, commitLog, writes, rounds>>

(* 2. GET DIFF, the listing: bin/commit-cat.mjs:82-85 (outside any try) *)
GetStagedFiles ==
  /\ pc = "getDiff"
  /\ \E listOk \in BOOLEAN :
       IF listOk
       THEN /\ stagedFiles' = staged
            /\ pc' = "collect"
            /\ UNCHANGED <<exitCode, output>>
       ELSE Throw /\ UNCHANGED stagedFiles
  /\ UNCHANGED <<envVars, revVars, effVars, cancelled, answer, rounds,
                 pos, fullDiff, totalSize, skippedFiles>>

---------------------------------------------------------------------------
(* One iteration of the collection loop over stagedFiles:                  *)
(* bin/commit-cat.mjs:87-92 and src/ui.js:452-472                          *)
collectCat(i, k) ==
  LET text == git_getFileDiff(k)
  IN Seg(i, 7 + FileKind[k].nameLen, text.len, 2, text.isDiff, FileKind[k].diffLen)

(* fault: the budget test rejects a diff that exactly fills the budget *)
collectClackOffByOne(i, k, total) ==
  IF total >= MAX_TOTAL_SIZE
  THEN [skip |-> TRUE, reason |-> "Total Limit", len |-> 0]
  ELSE LET res == ui_getFileDiff(k) IN
       IF res.skip THEN res
       ELSE IF total + res.len >= MAX_TOTAL_SIZE
       THEN [skip |-> TRUE, reason |-> "Total Limit", len |-> 0]
       ELSE res

(* src/ui.js:452-472: what the capped loop does with file i of kind k *)
collectClack(i, k, total) ==
  IF total >= MAX_TOTAL_SIZE
  THEN [skip |-> TRUE, reason |-> "Total Limit", len |-> 0]
  ELSE LET res == ui_getFileDiff(k) IN
       IF res.skip THEN res
       ELSE IF total + res.len > MAX_TOTAL_SIZE
       THEN [skip |-> TRUE, reason |-> "Total Limit", len |-> 0]
       ELSE res

(* fault: every iteration rewrites the file it has read *)
CollectFileWriting ==
  /\ pc = "collect"
  /\ pos < Len(stagedFiles)
  /\ LET i == pos + 1
         k == stagedFiles[i]
     IN /\ pos' = i
        /\ IF variant = "cat"
           THEN /\ fullDiff' = Append(fullDiff, collectCat(i, k))
                /\ UNCHANGED <<totalSize, skippedFiles>>
           ELSE LET res == collectClack(i, k, totalSize) IN
                IF res.skip
                THEN /\ skippedFiles' = Append(skippedFiles, <<i, res.reason>>)
                     /\ UNCHANGED <<fullDiff, totalSize>>
                ELSE /\ fullDiff' = Append(fullDiff,
                                      Seg(i, 10 + 2 * FileKind[k].nameLen, res.len, 1, TRUE, res.len))
                     /\ totalSize' = totalSize + res.len
                     /\ UNCHANGED skippedFiles
  /\ writes' = writes + 1
  /\ UNCHANGED <<envVars, ctlVars, revVars, commitLog, stageCalls, stagedFiles>>

CollectFile ==
  /\ pc = "collect"
  /\ pos < Len(stagedFiles)
  /\ LET i == pos + 1
         k == stagedFiles[i]
     IN /\ pos' = i
        /\ IF variant = "cat"
           THEN /\ fullDiff' = Append(fullDiff, collectCat(i, k))
                /\ UNCHANGED <<totalSize, skippedFiles>>
           ELSE LET res == collectClack(i, k, totalSize) IN
                IF res.skip
                THEN /\ skippedFiles' = Append(skippedFiles, <<i, res.reason>>)
                     /\ UNCHANGED <<fullDiff, totalSize>>
                ELSE /\ fullDiff' = Append(fullDiff,
                                      Seg(i, 10 + 2 * FileKind[k].nameLen, res.len, 1, TRUE, res.len))
                     /\ totalSize' = totalSize + res.len
                     /\ UNCHANGED skippedFiles
  /\ UNCHANGED <<envVars, ctlVars, revVars, effVars, stagedFiles>>

(* fault: the loop may be left before the last file has been processed *)
CollectDoneEarly ==
  /\ pc = "collect"
  /\ pos <= Len(stagedFiles)
  /\ IF variant = "clack" /\ fullDiff = <<>>
     THEN ExitWith(0, "no_valid_changes")
     ELSE /\ pc' = "request"
          /\ output' = output \cup (IF skippedFiles # <<>> THEN {"skipped"} ELSE {})
          /\ exitCode' = exitCode
  /\ UNCHANGED <<envVars, collVars, revVars, effVars, cancelled, answer, rounds>>

(* the end of the loop: src/ui.js:474-484, bin/commit-cat.mjs:94-96 *)
CollectDone ==
  /\ pc = "collect"
  /\ pos = Len(stagedFiles)
  /\ IF variant = "clack" /\ fullDiff = <<>>
     THEN ExitWith(0, "no_valid_changes")
     ELSE /\ pc' = "request"
          /\ output' = output \cup (IF skippedFiles # <<>> THEN {"skipped"} ELSE {})
          /\ exitCode' = exitCode
  /\ UNCHANGED <<envVars, collVars, revVars, effVars, cancelled, answer, rounds>>

---------------------------------------------------------------------------
(* The review call and the report.                                         *)
(* What the endpoint may answer *)
Responses == {"ok", "null", "nofields", "empty", "badjson", "ratelimit", "transport"}

(* review.suggestions of a well-formed answer *)
SuggLists ==
  { <<>>,
    << Finding("1", "a.js", <<"2">>, <<" ", "r">>) >>,
    << Finding("1", "a.js", <<>>, <<"z">>), Finding("2", "b.py", <<"1">>, <<>>) >>,
    << Finding("1", "gone.js", <<"1">>, <<"r">>), Finding("2", "lib", <<"1">>, <<"r">>) >>,
    << Finding("1", "a.js", <<"2">>, <<>>), Finding("2", "b.py", <<"1">>, <<>>),
       Finding("3", "a.js", <<>>, <<"z">>) >> }

(* the text that reaches the endpoint: src/ui.js:79-82 (ai.js),            *)
(* src/ui.js:491, bin/commit-cat.mjs:477-482                               *)
promptOf(diff) ==
  IF variant = "clack" THEN diff ELSE substring(diff, PromptCeiling)

(* generateReviewAndCommit (src/ui.js:54-114, the ai module): "throw",     *)
(* "null" or the parsed value                                              *)
generateReviewAndCommit(resp) ==
  IF resp \in {"ratelimit", "transport", "empty", "badjson"} THEN "throw" ELSE resp

(* callGemini (src/ui.js:301-335) *)
callGemini(resp) ==
  IF resp \in {"ratelimit", "transport", "empty", "badjson"} THEN "throw" ELSE resp

(* generateReviewAndCommit of the first version (bin/commit-cat.mjs:466-520): *)
(* every failure is caught and becomes null                                 *)
smart_generateReviewAndCommit(resp) ==
  IF resp \in {"ratelimit", "transport", "empty", "badjson"} THEN "null" ELSE resp

(* fault: a request that failed in transport is sent a second time *)
generateContentRetried(resp) ==
  IF resp \in {"ratelimit", "transport"} THEN 2 ELSE 1

(* how many requests one review call sends for an endpoint that answers    *)
(* resp: the single awaited model.generateContent of src/ui.js:85, the     *)
(* single fetch of src/ui.js:317 and of bin/commit-cat.mjs:485; no loop    *)
(* and no catch around any of them sends again                             *)
generateContentCalls(resp) ==
  IF resp \in Responses THEN 1 ELSE 0

reviewCall(resp) ==
  CASE variant = "cat" -> generateReviewAndCommit(resp)
    [] variant = "clack" -> callGemini(resp)
    [] variant = "smart" -> smart_generateReviewAndCommit(resp)

(* 3. AI ANALYSIS and 4. REPORT: bin/commit-cat.mjs:94-169,                *)
(* src/ui.js:486-532, bin/commit-cat.mjs:645-698                           *)
Request ==
  /\ pc = "request"
  /\ \E resp \in Responses, suggs \in SuggLists :
       IF variant = "cat" /\ StrLen(fullDiff) = 0
       THEN \* generateReviewAndCommit returns null without calling; main destructures null
            /\ result' = "null"
            /\ Throw
            /\ UNCHANGED <<genCalls, prompt, response, suggestions, currentMessage>>
       ELSE /\ genCalls' = genCalls + generateContentCalls(resp)
            /\ prompt' = promptOf(fullDiff)
            /\ response' = resp
            /\ LET r == reviewCall(resp) IN
               CASE r = "throw" ->
                      /\ ExitWith(1, "AI Error")
                      /\ UNCHANGED <<result, suggestions, currentMessage>>
                 [] r = "null" /\ variant # "smart" ->
                      /\ result' = "null"
                      /\ Throw
                      /\ UNCHANGED <<suggestions, currentMessage>>
                 [] r = "null" /\ variant = "smart" ->
                      /\ result' = "null"
                      /\ currentMessage' = FallbackMessage
                      /\ suggestions' = <<>>
                      /\ pc' = "menu"
                      /\ output' = output \cup {"report"}
                      /\ exitCode' = exitCode
                 [] r = "nofields" ->
                      /\ result' = "nofields"
                      /\ currentMessage' = IF variant = "smart" THEN FallbackMessage ELSE Undefined
                      /\ suggestions' = <<>>
                      /\ pc' = "menu"
                      /\ output' = output \cup {"report"}
                      /\ exitCode' = exitCode
                 [] r = "ok" ->
                      /\ result' = "ok"
                      /\ currentMessage' = commitMessage
                      /\ suggestions' = suggs
                      /\ pc' = "menu"
                      /\ output' = output \cup {"report"}
                      /\ exitCode' = exitCode
  /\ UNCHANGED <<envVars, collVars, effVars, cancelled, answer, rounds, selected, appliedCount>>

---------------------------------------------------------------------------
(* The annotate batch.                                                     *)
(* fault: the file is read once, before the batch *)
readFileSyncStale(acc, path) == InitContent[path]

(* fs.readFileSync(item.filePath) and split, inside the loop: the lines    *)
(* the previous iterations have left (bin/commit-cat.mjs:258-259,          *)
(* src/ui.js:613-614)                                                      *)
readFileSync(acc, path) == acc.content[path]

(* selected.forEach(...) of bin/commit-cat.mjs:254-287 and                 *)
(* src/ui.js:608-641, from the state `acc` on.  A read error throws out of *)
(* the loop: the writes made before it stay, the rest is not processed.    *)
RECURSIVE applySelected(_, _, _)
applySelected(sel, suggs, acc) ==
  IF sel = <<>> \/ acc.threw THEN acc
  ELSE LET idx == Head(sel)
           item == suggs[idx]
       IN IF ~existsSync(item.filePath) THEN applySelected(Tail(sel), suggs, acc)
          ELSE IF readThrows(item.filePath) THEN [acc EXCEPT !.threw = TRUE]
          ELSE LET r == injectOne(item, readFileSync(acc, item.filePath))
               IN IF r.injected
                  THEN applySelected(Tail(sel), suggs,
                         [acc EXCEPT !.content[item.filePath] = r.lines,
                                     !.count = acc.count + 1,
                                     !.removed = acc.removed \cup {idx},
                                     !.touched = acc.touched \cup {item.filePath}])
                  ELSE applySelected(Tail(sel), suggs, acc)

(* injectTodoComments of the first version (bin/commit-cat.mjs:578-621):   *)
(* every suggestion, context rule only, each one inside its own try        *)
RECURSIVE injectTodoComments(_, _, _)
injectTodoComments(suggs, i, acc) ==
  IF i > Len(suggs) THEN acc
  ELSE LET item == suggs[i]
       IN IF ~existsSync(item.filePath) \/ readThrows(item.filePath)
          THEN injectTodoComments(suggs, i + 1, acc)
          ELSE LET r == injectByContext(item, acc.content[item.filePath],
                                        getCommentSyntax(item.filePath, item.message))
               IN IF r.injected
                  THEN injectTodoComments(suggs, i + 1,
                         [acc EXCEPT !.content[item.filePath] = r.lines,
                                     !.count = acc.count + 1,
                                     !.removed = acc.removed \cup {i},
                                     !.touched = acc.touched \cup {item.filePath}])
                  ELSE injectTodoComments(suggs, i + 1, acc)

BatchStart(cont) ==
  [content |-> cont, count |-> 0, removed |-> {}, touched |-> {}, threw |-> FALSE]

(* review.suggestions.filter((_, i) => !indicesToRemove.has(i)) *)
RECURSIVE filterOut(_, _, _)
filterOut(suggs, removed, i) ==
  IF i > Len(suggs) THEN <<>>
  ELSE (IF i \in removed THEN <<>> ELSE <<suggs[i]>>) \o filterOut(suggs, removed, i + 1)

(* fault: the applied suggestions are not removed from the pending list *)
removeAppliedKeepsAll(suggs, removed) == suggs

(* bin/commit-cat.mjs:290-292: review.suggestions after the batch *)
removeApplied(suggs, removed) == filterOut(suggs, removed, 1)

(* the non-empty selections a multiselect over n options can return *)
Selections(n) ==
  {sel \in SeqsUpTo(1..n, n) : sel # <<>> /\ \A i, j \in DOMAIN sel : i # j => sel[i] # sel[j]}

(* fault: a rewritten file is not seen as a working-tree change *)
markDirtyForgets(tree, paths) == tree

(* working-tree paths rewritten and not yet staged *)
markDirty(tree, paths) ==
  tree \o SelectSeq(<<"a.js", "b.py">>, LAMBDA x : x \in paths /\ x \notin RangeOf(tree))

(* /bin/sh reading a command line (execSync runs it through the shell).    *)
(* Between double quotes a double quote ends the quoting, a backslash      *)
(* escapes the next special character, $name is replaced by the value of   *)
(* the variable (unset here: nothing), and the text between two backticks  *)
(* is run as a command and replaced by its output (here: nothing).         *)
ShellSpecial == {" ", "\t", "\n", "\"", "$", "<bq>", "\\"}

RECURSIVE dropName(_)
dropName(chars) ==
  IF chars # <<>> /\ Head(chars) \notin ShellSpecial THEN dropName(Tail(chars)) ELSE chars

RECURSIVE afterBacktick(_)
afterBacktick(chars) ==
  IF chars = <<>> THEN [closed |-> FALSE, rest |-> <<>>]
  ELSE IF Head(chars) = "<bq>" THEN [closed |-> TRUE, rest |-> Tail(chars)]
  ELSE afterBacktick(Tail(chars))

RECURSIVE shWord(_, _)
shWord(chars, st) ==
  IF chars = <<>> \/ ~st.ok THEN st
  ELSE LET c == Head(chars)
           rest == Tail(chars)
       IN IF c = "\"" THEN shWord(rest, [st EXCEPT !.inQuote = ~st.inQuote])
          ELSE IF c = "\\" /\ rest # <<>> /\ (~st.inQuote \/ Head(rest) \in {"$", "<bq>", "\"", "\\"})
          THEN shWord(Tail(rest), [st EXCEPT !.text = Append(st.text, Head(rest))])
          ELSE IF c = "$" /\ rest # <<>> /\ Head(rest) \notin ShellSpecial
          THEN shWord(dropName(rest), st)
          ELSE IF c = "<bq>"
          THEN LET sub == afterBacktick(rest)
               IN IF sub.closed THEN shWord(sub.rest, st) ELSE [st EXCEPT !.ok = FALSE]
          ELSE IF ~st.inQuote /\ IsSpace(c)
          THEN shWord(rest, [st EXCEPT !.split = TRUE])
          ELSE shWord(rest, [st EXCEPT !.text = Append(st.text, c)])

(* the value of -m in `git commit -m "${currentMessage}"`; ok is FALSE     *)
(* when the shell rejects the line (an unterminated quote or backtick)     *)
shellMessage(msg) ==
  LET st == shWord(<<"\"">> \o msg \o <<"\"">>,
                   [inQuote |-> FALSE, text |-> <<>>, ok |-> TRUE, split |-> FALSE])
  IN [ok |-> st.ok /\ ~st.inQuote /\ ~st.split, text |-> st.text]

(* the message text git is given: through the shell in bin/commit-cat.mjs  *)
(* (line 203), on standard input in src/ui.js:667 and in the first version *)
(* (line 733); git refuses an empty message                                *)
handedToGit(msg) ==
  IF variant = "cat"
  THEN LET r == shellMessage(msg) IN [ok |-> r.ok /\ r.text # <<>>, text |-> r.text]
  ELSE IF msg = Undefined THEN [ok |-> FALSE, text |-> <<>>]
  ELSE [ok |-> msg # <<>>, text |-> msg]

(* execSync of `git commit`: the attempt is recorded with the message the  *)
(* program holds, the text git is given and the outcome                    *)
gitCommit(msg, ok) ==
  commitLog' = Append(commitLog, [msg |-> msg, ok |-> ok /\ handedToGit(msg).ok,
                                  given |-> handedToGit(msg).text])

(* fault: a failed commit is reported but the run goes on *)
FinalCommitRetry(msg, ok) ==
  /\ gitCommit(msg, ok)
  /\ IF ok /\ handedToGit(msg).ok THEN ExitWith(0, "committed")
     ELSE /\ pc' = "menu"
          /\ output' = output \cup {"commit failed"}
          /\ exitCode' = exitCode

(* the commit of bin/commit-cat.mjs:201-210, src/ui.js:666-680 and         *)
(* bin/commit-cat.mjs:732-740                                              *)
FinalCommit(msg, ok) ==
  /\ gitCommit(msg, ok)
  /\ IF ok /\ handedToGit(msg).ok THEN ExitWith(0, "committed")
     ELSE ExitWith(1, IF variant = "smart" THEN "error" ELSE "commit failed")

---------------------------------------------------------------------------
(* 5. ACTION LOOP: bin/commit-cat.mjs:171-318; 6. ACTION MENU:             *)
(* src/ui.js:534-681; INTERACTIVE LOOP: bin/commit-cat.mjs:700-740         *)

(* "cancel" / "q", or the prompt was cancelled *)
ActionCancel ==
  /\ pc = "menu"
  /\ \E action \in {Answer("cancel")} \cup (IF variant = "smart" THEN {} ELSE {CancelSymbol}),
        ok \in BOOLEAN :
       /\ cancelled' = (cancelled \/ action.isCancel)
       /\ answer' = action
       /\ IF handleCancel(action)
          THEN ExitWith(0, "cancelled") /\ UNCHANGED <<rounds, commitLog>>
          ELSE IF action.v = "cancel"
          THEN /\ ExitWith(0, IF variant = "smart" THEN "aborted" ELSE "cancelled")
               /\ UNCHANGED <<rounds, commitLog>>
          ELSE IF variant = "cat"
          THEN \* no branch of the loop body matches: the menu is shown again
               /\ rounds < MaxRounds
               /\ rounds' = rounds + 1
               /\ UNCHANGED <<pc, exitCode, output, commitLog>>
          ELSE FinalCommit(currentMessage, ok) /\ UNCHANGED rounds
  /\ UNCHANGED <<envVars, collVars, revVars, stageCalls, writes>>

(* "commit" / "d": bin/commit-cat.mjs:201-210, src/ui.js:666-680,          *)
(* bin/commit-cat.mjs:712-713 and 732-740                                  *)
ActionCommit ==
  /\ pc = "menu"
  /\ \E ok \in BOOLEAN : FinalCommit(currentMessage, ok)
  /\ answer' = Answer("commit")
  /\ UNCHANGED <<envVars, collVars, revVars, stageCalls, writes, cancelled, rounds>>

(* what the editor session leaves behind *)
(* "saved": the editor wrote `edited`; "untouched": the editor did not     *)
(* start or quit without saving, the file still holds the initial message  *)
EditOutcomes == {"saved", "untouched", "removed", "readFail", "writeFail"}

(* editCommitMessage (src/git.js:51-67, bin/commit-cat.mjs:522-538): the   *)
(* message it returns and whether the temporary file is left behind;       *)
(* writeFileSync throws before the try, on an I/O error or on a message    *)
(* that is undefined                                                       *)
editCommitMessage(initialMessage, outcome, edited) ==
  IF initialMessage = Undefined
  THEN [threw |-> TRUE, msg |-> initialMessage, temp |-> tempFile]
  ELSE
  CASE outcome = "saved"     -> [threw |-> FALSE, msg |-> trim(edited), temp |-> FALSE]
    [] outcome = "untouched" -> [threw |-> FALSE, msg |-> trim(initialMessage), temp |-> FALSE]
    [] outcome = "removed"   -> [threw |-> FALSE, msg |-> initialMessage, temp |-> FALSE]
    [] outcome = "readFail"  -> [threw |-> FALSE, msg |-> initialMessage, temp |-> TRUE]
    [] outcome = "writeFail" -> [threw |-> TRUE, msg |-> initialMessage, temp |-> tempFile]

(* the inline edit of src/ui.js:567-578 *)
clack_edit(initialMessage, outcome, edited) ==
  IF initialMessage = Undefined
  THEN [threw |-> TRUE, msg |-> initialMessage, temp |-> tempFile]
  ELSE
  CASE outcome = "saved"     -> [threw |-> FALSE, msg |-> trim(edited), temp |-> FALSE]
    [] outcome = "untouched" -> [threw |-> FALSE, msg |-> trim(initialMessage), temp |-> FALSE]
    [] outcome = "removed"   -> [threw |-> FALSE, msg |-> initialMessage, temp |-> FALSE]
    [] outcome = "readFail"  -> [threw |-> FALSE, msg |-> initialMessage, temp |-> TRUE]
    [] outcome = "writeFail" -> [threw |-> TRUE, msg |-> initialMessage, temp |-> tempFile]

(* "edit" / "e": bin/commit-cat.mjs:212-214, src/ui.js:567-588,            *)
(* bin/commit-cat.mjs:721-725                                              *)
ActionEdit ==
  /\ pc = "menu"
  /\ rounds < MaxRounds
  /\ \E outcome \in EditOutcomes, edited \in EditedTexts :
       LET r == IF variant = "clack" THEN clack_edit(currentMessage, outcome, edited)
                ELSE editCommitMessage(currentMessage, outcome, edited)
       IN /\ tempFile' = r.temp
          /\ answer' = Answer("edit")
          /\ IF r.threw
             THEN Throw /\ UNCHANGED <<currentMessage, rounds>>
             ELSE /\ currentMessage' = r.msg
                  /\ rounds' = rounds + 1
                  /\ pc' = IF variant = "cat" THEN "menu" ELSE "editConfirm"
                  /\ output' = output \cup (IF variant = "clack" /\ outcome \in {"removed", "readFail"}
                                            THEN {"editor failed"} ELSE {})
                  /\ exitCode' = exitCode
  /\ UNCHANGED <<fnVars, variant, apiKey, staged, unstaged, outside, content, collVars,
                 genCalls, prompt, response, result, suggestions, selected,
                 appliedCount, effVars, cancelled>>

(* the confirm after an edit: src/ui.js:580-588, bin/commit-cat.mjs:724-725 *)
EditConfirm ==
  /\ pc = "editConfirm"
  /\ \E confirm \in {Answer("yes"), Answer("no")} \cup (IF variant = "smart" THEN {} ELSE {CancelSymbol}),
        ok \in BOOLEAN :
       /\ cancelled' = (cancelled \/ confirm.isCancel)
       /\ answer' = confirm
       /\ IF variant = "smart"
          THEN IF confirm.v = "yes"
               THEN FinalCommit(currentMessage, ok)
               ELSE pc' = "menu" /\ UNCHANGED <<exitCode, output, commitLog>>
          ELSE IF handleCancel(confirm)
          THEN ExitWith(0, "cancelled") /\ UNCHANGED commitLog
          ELSE IF ~Truthy(confirm)
          THEN pc' = "exited" /\ exitCode' = 0 /\ UNCHANGED <<output, commitLog>>
          ELSE FinalCommit(currentMessage, ok)
  /\ UNCHANGED <<envVars, collVars, revVars, stageCalls, writes, rounds>>

(* fault: the annotate option is offered whatever the pending list holds *)
issuesNeverDisabled(suggs) == FALSE

(* disabled: !review?.suggestions?.length (bin/commit-cat.mjs:188,         *)
(* src/ui.js:553); the first version tests suggestions.length > 0          *)
issuesDisabled(suggs) == Len(suggs) = 0

(* "issues" / "i": the option is disabled when there is no suggestion.     *)
(* bin/commit-cat.mjs:216, src/ui.js:590; the first version injects every  *)
(* suggestion at once, re-stages and commits: bin/commit-cat.mjs:714-720   *)
ActionIssues ==
  /\ pc = "menu"
  /\ ~issuesDisabled(suggestions)
  /\ rounds < MaxRounds
  /\ rounds' = rounds + 1
  /\ answer' = Answer("issues")
  /\ IF variant # "smart"
     THEN /\ pc' = "select"
          /\ UNCHANGED <<exitCode, output, content, writes, unstaged, staged,
                         stageCalls, commitLog, appliedCount>>
     ELSE \E addOk \in BOOLEAN, ok \in BOOLEAN :
            LET r == injectTodoComments(suggestions, 1, BatchStart(content))
            IN /\ content' = r.content
               /\ writes' = writes + r.count
               /\ appliedCount' = r.count
               /\ IF r.count = 0
                  THEN /\ FinalCommit(currentMessage, ok)
                       /\ UNCHANGED <<staged, unstaged, stageCalls>>
                  ELSE IF ~addOk
                  THEN /\ Throw
                       /\ unstaged' = markDirty(unstaged, r.touched)
                       /\ UNCHANGED <<staged, stageCalls, commitLog>>
                  ELSE /\ staged' = gitAddAll(staged, markDirty(unstaged, r.touched))
                       /\ unstaged' = <<>>
                       /\ stageCalls' = stageCalls + 1
                       /\ FinalCommit(currentMessage, ok)
  /\ UNCHANGED <<fnVars, variant, apiKey, outside, tempFile, collVars, genCalls, prompt,
                 response, result, suggestions, currentMessage, selected, cancelled>>

(* the multiselect and the batch: bin/commit-cat.mjs:217-298,              *)
(* src/ui.js:592-646                                                       *)
SelectIssues ==
  /\ pc = "select"
  /\ \E sel \in {Answer(x) : x \in Selections(Len(suggestions))} \cup {CancelSelection},
        addOk \in BOOLEAN, ok \in BOOLEAN :
       /\ cancelled' = (cancelled \/ sel.isCancel)
       /\ answer' = IF sel.isCancel THEN CancelSymbol ELSE Answer("selection")
       /\ selected' = sel.v
       /\ IF handleCancel(sel)
          THEN /\ ExitWith(0, "cancelled")
               /\ UNCHANGED <<content, writes, unstaged, staged, stageCalls,
                              suggestions, appliedCount, commitLog>>
          ELSE IF Len(sel.v) = 0
          THEN /\ IF variant = "cat"
                  THEN UNCHANGED <<exitCode, output, commitLog>> /\ pc' = "menu"
                  ELSE FinalCommit(currentMessage, ok)
               /\ UNCHANGED <<content, writes, unstaged, staged, stageCalls,
                              suggestions, appliedCount>>
          ELSE LET r == applySelected(sel.v, suggestions, BatchStart(content))
               IN /\ content' = r.content
                  /\ writes' = writes + r.count
                  /\ UNCHANGED commitLog
                  /\ IF r.threw
                     THEN /\ Throw
                          /\ unstaged' = markDirty(unstaged, r.touched)
                          /\ UNCHANGED <<staged, stageCalls, suggestions, appliedCount>>
                     ELSE /\ appliedCount' = r.count
                          /\ IF variant = "cat"
                             THEN /\ suggestions' = removeApplied(suggestions, r.removed)
                                  /\ unstaged' = markDirty(unstaged, r.touched)
                                  /\ pc' = "commitNow"
                                  /\ output' = output \cup {"applied"}
                                  /\ UNCHANGED <<exitCode, staged, stageCalls>>
                             ELSE /\ UNCHANGED suggestions
                                  /\ IF ~addOk
                                     THEN /\ Throw
                                          /\ unstaged' = markDirty(unstaged, r.touched)
                                          /\ UNCHANGED <<staged, stageCalls>>
                                     ELSE /\ staged' = gitAddAll(staged, markDirty(unstaged, r.touched))
                                          /\ unstaged' = <<>>
                                          /\ stageCalls' = stageCalls + 1
                                          /\ pc' = "commitNow"
                                          /\ output' = output \cup {"applied"}
                                          /\ exitCode' = exitCode
  /\ UNCHANGED <<fnVars, variant, apiKey, outside, tempFile, collVars, genCalls, prompt,
                 response, result, currentMessage, rounds>>

(* the confirm after a batch: bin/commit-cat.mjs:300-315, src/ui.js:652-662 *)
CommitNow ==
  /\ pc = "commitNow"
  /\ \E commitNow \in {Answer("yes"), Answer("no"), CancelSymbol},
        addOk \in BOOLEAN, ok \in BOOLEAN :
       /\ cancelled' = (cancelled \/ commitNow.isCancel)
       /\ answer' = commitNow
       /\ IF handleCancel(commitNow)
          THEN /\ ExitWith(0, "cancelled")
               /\ UNCHANGED <<staged, unstaged, stageCalls, commitLog>>
          ELSE IF variant = "cat"
          THEN IF Truthy(commitNow)
               THEN IF addOk
                    THEN /\ staged' = gitAddAll(staged, unstaged)
                         /\ unstaged' = <<>>
                         /\ stageCalls' = stageCalls + 1
                         /\ pc' = "menu"
                         /\ output' = output \cup {"re_stage_info"}
                         /\ UNCHANGED <<exitCode, commitLog>>
                    ELSE /\ Throw
                         /\ UNCHANGED <<staged, unstaged, stageCalls, commitLog>>
               ELSE /\ ExitWith(0, "done")
                    /\ UNCHANGED <<staged, unstaged, stageCalls, commitLog>>
          ELSE /\ IF Truthy(commitNow)
                  THEN FinalCommit(currentMessage, ok)
                  ELSE pc' = "exited" /\ exitCode' = 0 /\ UNCHANGED <<output, commitLog>>
               /\ UNCHANGED <<staged, unstaged, stageCalls>>
  /\ UNCHANGED <<fnVars, variant, apiKey, outside, content, tempFile, collVars, revVars,
                 writes, rounds>>

---------------------------------------------------------------------------
Next ==
  \/ CheckApiKey
  \/ StageCheck
  \/ ConfirmStage
  \/ GetStagedFiles
  \/ CollectFile
  \/ CollectDone
  \/ Request
  \/ ActionCancel
  \/ ActionCommit
  \/ ActionEdit
  \/ EditConfirm
  \/ ActionIssues
  \/ SelectIssues
  \/ CommitNow

Spec == Init /\ [][Next]_vars

---------------------------------------------------------------------------
(* The collector on its own: the run has passed the credential check and   *)
(* finds an arbitrary non-empty staged listing and a clean working tree.   *)
CollectKinds == {"tiny", "d20k", "d30k", "d30k1", "png"}

InitCollect ==
  /\ variant \in Variants
  /\ apiKey = TRUE
  /\ pc = "stage"
  /\ exitCode = -1
  /\ output = {"title"}
  /\ cancelled = FALSE
  /\ answer = NoAnswer
  /\ staged \in {l \in SeqsUpTo(CollectKinds, MaxFiles) : l # <<>>}
  /\ unstaged = <<>>
  /\ outside = FALSE
  /\ stagedFiles = <<>>
  /\ pos = 0
  /\ fullDiff = <<>>
  /\ totalSize = 0
  /\ skippedFiles = <<>>
  /\ genCalls = 0
  /\ prompt = <<>>
  /\ response = "none"
  /\ result = "none"
  /\ suggestions = <<>>
  /\ currentMessage = NoMessage
  /\ commitLog = <<>>
  /\ stageCalls = 0
  /\ writes = 0
  /\ content = InitContent
  /\ tempFile = FALSE
  /\ selected = <<>>
  /\ appliedCount = 0
  /\ rounds = 0
  /\ args = NoCall
  /\ returned = NoCall

NextCollect ==
  \/ StageCheck
  \/ GetStagedFiles
  \/ CollectFile
  \/ CollectDone
  \/ Request

SpecCollect == InitCollect /\ [][NextCollect]_vars

---------------------------------------------------------------------------
(* The collector over listings that hold unreadable paths: a deleted path  *)
(* (fs.statSync throws) and a path whose `git diff --staged` fails.        *)
MaxListing == 4    \* longest staged listing with unreadable paths

FailKinds == {"tiny", "d30k", "gone", "broken", "lock"}

InitReadFail ==
  /\ variant \in Variants
  /\ apiKey = TRUE
  /\ pc = "stage"
  /\ exitCode = -1
  /\ output = {"title"}
  /\ cancelled = FALSE
  /\ answer = NoAnswer
  /\ staged \in {l \in SeqsUpTo(FailKinds, MaxListing) : l # <<>>}
  /\ unstaged = <<>>
  /\ outside = FALSE
  /\ stagedFiles = <<>>
  /\ pos = 0
  /\ fullDiff = <<>>
  /\ totalSize = 0
  /\ skippedFiles = <<>>
  /\ genCalls = 0
  /\ prompt = <<>>
  /\ response = "none"
  /\ result = "none"
  /\ suggestions = <<>>
  /\ currentMessage = NoMessage
  /\ commitLog = <<>>
  /\ stageCalls = 0
  /\ writes = 0
  /\ content = InitContent
  /\ tempFile = FALSE
  /\ selected = <<>>
  /\ appliedCount = 0
  /\ rounds = 0
  /\ args = NoCall
  /\ returned = NoCall

SpecReadFail == InitReadFail /\ [][NextCollect]_vars

---------------------------------------------------------------------------
(* Properties *)

FailureResponses == {"ratelimit", "transport", "empty", "badjson"}

(* C1: when the review request fails (transport error, rate limit, empty   *)
(* response, unparseable JSON) the run ends with exit code 1 and no commit *)
(* is made; the menu is never reached with a fallback message.             *)
C1_FailedRequestIsFatal ==
  response \in FailureResponses =>
    pc = "exited" /\ exitCode = 1 /\ commitLog = <<>>

(* C2: a run attempts the commit at most once, with the current message;   *)
(* a successful commit ends the run with exit code 0, a failed one is      *)
(* reported and ends the run with exit code 1, without a retry.            *)
C2_CommitAtMostOnce ==
  /\ Len(commitLog) <= 1
  /\ commitLog # <<>> =>
       /\ pc = "exited"
       /\ commitLog[1].msg = currentMessage
       /\ IF commitLog[1].ok
          THEN exitCode = 0
          ELSE exitCode = 1 /\ output \cap {"commit failed", "error"} # {}

C2_Witness ==
  /\ variant = "cat"
  /\ rounds >= 2
  /\ commitLog # <<>>
  /\ ~commitLog[1].ok

(* C3: once a prompt has returned the cancellation sentinel the run has    *)
(* ended with exit code 0 and the cancellation notice, and the step that   *)
(* receives the sentinel commits nothing, stages nothing, writes no file.  *)
C3_CancelEndsRun ==
  /\ [](cancelled => pc = "exited" /\ exitCode = 0 /\ "cancelled" \in output)
  /\ [][cancelled' => UNCHANGED <<commitLog, stageCalls, staged, writes, content>>]_vars

C3_Witness ==
  /\ cancelled
  /\ pc = "exited"
  /\ writes > 0
  /\ unstaged # <<>>

(* C4 as stated, for the re-entrant loop of bin/commit-cat.mjs: after an   *)
(* annotate batch, unless the prompt is cancelled (or a command fails),    *)
(* control returns to the action menu.                                     *)
C4_AnnotateAlwaysReturnsToMenu ==
  [][(variant = "cat" /\ pc = "commitNow" /\ ~cancelled' /\ "console.error" \notin output')
       => pc' = "menu"]_vars

(* C4, amended: in the re-entrant loop of bin/commit-cat.mjs the batch is  *)
(* followed by a confirm.  "yes" re-stages the working tree and returns to *)
(* the menu; "no" ends the run with exit code 0 and no commit.  The run    *)
(* ends only by commit, cancel, a cancelled prompt, that "no", or a failed *)
(* command; until then commit, edit, cancel (and annotate while a          *)
(* suggestion is pending) can be chosen at every showing of the menu.      *)
C4_ReentrantUnlessDeclined ==
  /\ [][(variant = "cat" /\ pc = "commitNow") =>
          \/ answer'.isCancel /\ pc' = "exited" /\ exitCode' = 0
          \/ /\ answer' = Answer("yes")
             /\ \/ pc' = "menu" /\ unstaged' = <<>> /\ stageCalls' = stageCalls + 1
                \/ pc' = "exited" /\ "console.error" \in output'
          \/ /\ answer' = Answer("no")
             /\ pc' = "exited" /\ exitCode' = 0 /\ commitLog' = <<>>
             /\ stageCalls' = stageCalls]_vars
  /\ []((variant = "cat" /\ pc = "exited" /\ "report" \in output) =>
          \/ commitLog # <<>>
          \/ cancelled
          \/ answer \in {Answer("cancel"), Answer("no")}
          \/ "console.error" \in output)
  /\ []((variant = "cat" /\ pc = "menu" /\ rounds < MaxRounds) =>
          /\ ENABLED ActionCommit
          /\ ENABLED ActionEdit
          /\ ENABLED ActionCancel
          /\ (suggestions # <<>> <=> ENABLED ActionIssues))

C4_Witness ==
  /\ variant = "cat"
  /\ pc = "menu"
  /\ answer = Answer("yes")
  /\ appliedCount > 0
  /\ stageCalls > 0

FailureTags == {"no_api_key", "error", "AI Error", "commit failed", "console.error"}

(* C5: a run in which a fatal failure was reported ends with a nonzero     *)
(* exit code; exit code 0 comes only from a successful commit or from a    *)
(* cancellation or no-op the user chose.                                   *)
C5_FatalFailureExitsNonzero ==
  pc = "exited" =>
    /\ (output \cap FailureTags # {}) => exitCode # 0
    /\ exitCode = 0 =>
         \/ commitLog # <<>> /\ commitLog[1].ok
         \/ cancelled
         \/ answer \in {Answer("cancel"), Answer("no")}
         \/ output \cap {"nothing_to_commit", "no_changes", "no_valid_changes"} # {}

(* C6: without the credential the run ends with exit code 1 at the check:  *)
(* no listing is read, nothing is staged, no prompt is answered, the       *)
(* endpoint is not called, no file and no index entry changes.             *)
C6_NoCredentialNoStaging ==
  /\ [](~apiKey =>
          /\ pc \in {"start", "exited"}
          /\ pc = "exited" => (exitCode = 1 /\ output = {"no_api_key"})
          /\ stagedFiles = <<>>
          /\ answer = NoAnswer
          /\ genCalls = 0
          /\ stageCalls = 0
          /\ commitLog = <<>>
          /\ writes = 0)
  /\ [][~apiKey => UNCHANGED <<staged, unstaged, content, tempFile>>]_vars

C6_Witness ==
  /\ ~apiKey
  /\ pc = "exited"
  /\ exitCode = 1
  /\ unstaged # <<>>

(* C7: with nothing staged, a clean working tree ends the run with exit    *)
(* code 0 (a failing git command aside), and declining the stage-all       *)
(* prompt ends it with exit code 0; in both cases the index is unchanged,  *)
(* the endpoint is never called and nothing is committed.                  *)
C7_NothingStagedEndsQuietly ==
  /\ []((apiKey /\ staged = <<>> /\ unstaged = <<>> /\ ~outside) =>
          /\ genCalls = 0
          /\ commitLog = <<>>
          /\ pc \in {"start", "stage", "confirmStage", "exited"}
          /\ (pc = "exited" /\ "error" \notin output) => exitCode = 0)
  /\ [][(pc = "confirmStage" /\ answer' = Answer("no")) =>
          /\ pc' = "exited"
          /\ exitCode' = 0
          /\ staged' = staged
          /\ unstaged' = unstaged
          /\ stageCalls' = 0
          /\ genCalls' = 0
          /\ commitLog' = <<>>]_vars

C7_Witness ==
  /\ pc = "exited"
  /\ exitCode = 0
  /\ answer = Answer("no")
  /\ staged = <<>>
  /\ unstaged # <<>>
  /\ "report" \notin output

(* C8: at every point of the collection and at its end, the diffs that are *)
(* in the payload add up to at most MAX_TOTAL_SIZE characters.             *)
C8_TotalCapNeverExceeded ==
  IncludedDiffLen(fullDiff) <= MAX_TOTAL_SIZE

SkippedAs(i, reason) ==
  \E n \in DOMAIN skippedFiles : skippedFiles[n] = <<i, reason>>

IncludedFile(i) ==
  \E n \in DOMAIN fullDiff : fullDiff[n].file = i

(* the running total when the loop reaches file i *)
TotalBefore(i) ==
  IncludedDiffLen(SelectSeq(fullDiff, LAMBDA g : g.file < i))

(* C9 as stated: once a file is skipped for the total limit, every file    *)
(* after it in the listing is skipped for the total limit too.             *)
C9_EveryLaterFileSkipped ==
  variant = "clack" =>
    \A i, j \in 1..pos :
      (i < j /\ SkippedAs(i, "Total Limit")) => SkippedAs(j, "Total Limit")

(* C9, amended: files are processed in listing order; a file is skipped    *)
(* with reason "Total Limit" exactly when the running total has already    *)
(* reached the cap, or the file passes the per-file filters and its diff   *)
(* would take the total over the cap; a file that passes the filters and   *)
(* still fits is included, also after an earlier total-limit skip.         *)
C9_TotalLimitIsPerFile ==
  variant = "clack" =>
    /\ \A m, n \in DOMAIN fullDiff : m < n => fullDiff[m].file < fullDiff[n].file
    /\ \A m, n \in DOMAIN skippedFiles : m < n => skippedFiles[m][1] < skippedFiles[n][1]
    /\ \A i \in 1..pos :
         LET res == ui_getFileDiff(stagedFiles[i])
             total == TotalBefore(i)
         IN /\ SkippedAs(i, "Total Limit") <=>
                 \/ total >= MAX_TOTAL_SIZE
                 \/ ~res.skip /\ total + res.len > MAX_TOTAL_SIZE
            /\ IncludedFile(i) <=>
                 (total < MAX_TOTAL_SIZE /\ ~res.skip /\ total + res.len <= MAX_TOTAL_SIZE)

C9_Witness ==
  /\ variant = "clack"
  /\ \E i, j \in 1..pos :
       /\ i < j
       /\ SkippedAs(i, "Total Limit")
       /\ IncludedFile(j)

(* C10: where the payload is built with getFileDiff, a file whose diff is  *)
(* longer than MAX_FILE_SIZE contributes nothing to it, and every diff in  *)
(* the payload, as collected and as sent, is there in full.                *)
C10_OversizedSkippedNeverTruncated ==
  variant # "smart" =>
  /\ \A n \in DOMAIN fullDiff :
       fullDiff[n].isDiff => (fullDiff[n].full <= MAX_FILE_SIZE /\ fullDiff[n].len = fullDiff[n].full)
  /\ \A n \in DOMAIN prompt :
       prompt[n].isDiff => (prompt[n].full <= MAX_FILE_SIZE /\ prompt[n].len = prompt[n].full)

(* the read or the fetch of the diff of a path of kind k fails: in the     *)
(* capped collector fs.statSync throws or the diff command, reached after  *)
(* the filters, throws; in bin/commit-cat.mjs the diff command throws      *)
ReadFails(k) ==
  LET f == FileKind[k] IN
  IF variant = "clack"
  THEN f.statErr \/ (~f.ign /\ ~f.bin /\ f.size <= MAX_FILE_SIZE /\ f.diffErr)
  ELSE ~f.bin /\ ~f.ign /\ f.diffErr

(* C11: a file whose diff cannot be read or fetched contributes no diff:   *)
(* the capped collector records it as skipped with reason "error reading", *)
(* bin/commit-cat.mjs puts an error placeholder in its place.  The loop    *)
(* goes on: every listed file is handled exactly once, and the run leaves  *)
(* the loop only after the last file.                                      *)
C11_ReadFailureSkipsOneFile ==
  variant # "smart" =>
    /\ pc \notin {"stage", "confirmStage", "getDiff", "collect"} => pos = Len(stagedFiles)
    /\ pc = "exited" /\ genCalls = 0 /\ pos > 0 =>
         (variant = "clack" /\ fullDiff = <<>> /\ output \cap FailureTags = {})
    /\ IF variant = "clack"
       THEN /\ Len(fullDiff) + Len(skippedFiles) = pos
            /\ \A i \in 1..pos :
                 /\ ~(IncludedFile(i) /\ \E n \in DOMAIN skippedFiles : skippedFiles[n][1] = i)
                 /\ (ReadFails(stagedFiles[i]) /\ TotalBefore(i) < MAX_TOTAL_SIZE) =>
                      (SkippedAs(i, "error reading") /\ ~IncludedFile(i))
                 /\ (~ui_getFileDiff(stagedFiles[i]).skip
                       /\ TotalBefore(i) + FileKind[stagedFiles[i]].diffLen <= MAX_TOTAL_SIZE) =>
                      IncludedFile(i)
       ELSE /\ Len(fullDiff) = pos
            /\ \A i \in 1..pos :
                 /\ fullDiff[i].file = i
                 /\ ReadFails(stagedFiles[i]) => ~fullDiff[i].isDiff
                 /\ (~ReadFails(stagedFiles[i]) /\ git_getFileDiff(stagedFiles[i]).isDiff) =>
                      (fullDiff[i].isDiff /\ fullDiff[i].len = FileKind[stagedFiles[i]].diffLen)

C11_Witness ==
  /\ variant = "clack"
  /\ pc = "request"
  /\ \E i, j, l \in 1..pos :
       /\ i < j /\ j < l
       /\ stagedFiles[i] = "gone" /\ SkippedAs(i, "error reading")
       /\ stagedFiles[j] = "broken" /\ SkippedAs(j, "error reading")
       /\ IncludedFile(l)

(* C12: when files are staged and, after the filters, none of them has     *)
(* contributed diff text, the run ends with the empty-result notice (not   *)
(* the nothing-staged one), without a call to the endpoint and without a   *)
(* commit.                                                                 *)
C12_EmptyResultEndsRun ==
  (variant # "smart" /\ stagedFiles # <<>> /\ pos = Len(stagedFiles) /\ pc # "collect"
     /\ IncludedDiffLen(fullDiff) = 0) =>
    /\ pc = "exited"
    /\ exitCode = 0
    /\ "no_valid_changes" \in output
    /\ output \cap {"nothing_to_commit", "no_changes"} = {}
    /\ genCalls = 0
    /\ commitLog = <<>>

(* every finding a review may hold *)
AllFindings == UNION {RangeOf(list) : list \in SuggLists}

(* the number of lines of the finding's file, in the working tree `cont`,  *)
(* that are its comment line                                               *)
TodoCountIn(cont, item) ==
  IF item.filePath \notin DOMAIN cont THEN 0
  ELSE Cardinality({i \in DOMAIN cont[item.filePath] :
                      trimStart(cont[item.filePath][i])
                        = getCommentSyntax(item.filePath, item.message)})

TodoCount(item) == TodoCountIn(content, item)

(* C13: within one run the comment of a finding is written into its file   *)
(* at most once, and whenever the action menu is shown no pending          *)
(* suggestion is one whose comment has already been written.               *)
C13_FindingAppliedAtMostOnce ==
  /\ \A item \in AllFindings : TodoCount(item) <= 1
  /\ pc = "menu" => \A i \in DOMAIN suggestions : TodoCount(suggestions[i]) = 0

C13_Witness ==
  /\ variant = "cat"
  /\ pc = "menu"
  /\ writes = 2
  /\ appliedCount = 1
  /\ Len(suggestions) = 1
  /\ \E item \in AllFindings : item.filePath = "a.js" /\ TodoCount(item) = 1
  /\ \E item \in AllFindings : item.filePath = "b.py" /\ TodoCount(item) = 1

(* the pending findings whose comment line a step has written *)
NewlyApplied ==
  {i \in DOMAIN suggestions :
     TodoCountIn(content', suggestions[i]) > TodoCountIn(content, suggestions[i])}

(* C14: a step rewrites a file only by injecting pending findings into it: *)
(* every file grows by exactly one line per finding injected into it and   *)
(* is otherwise left as it was, one write is made per injected finding,    *)
(* and a finding that was not injected is still in the pending list.       *)
C14_RewriteOnlyOnSuccess ==
  [][/\ \A path \in DOMAIN content :
          /\ Len(content'[path]) = Len(content[path])
               + Cardinality({i \in NewlyApplied : suggestions[i].filePath = path})
          /\ Len(content'[path]) = Len(content[path]) => content'[path] = content[path]
     /\ writes' = writes + Cardinality(NewlyApplied)
     /\ \A i \in DOMAIN suggestions \ NewlyApplied :
          \E j \in DOMAIN suggestions' : suggestions'[j] = suggestions[i]
     /\ \A i \in NewlyApplied :
          /\ existsSync(suggestions[i].filePath)
          /\ suggestions[i].contextLine # <<>> \/ suggestions[i].lineNumber # <<>>
    ]_<<content, writes, suggestions>>

C14_Witness ==
  /\ variant = "cat"
  /\ pc = "commitNow"
  /\ RangeOf(selected) = {1, 3}
  /\ appliedCount = 1
  /\ writes = 1
  /\ content["b.py"] = InitContent["b.py"]
  /\ Len(suggestions) = 2
  /\ suggestions[2].message = "3"
  /\ TodoCount(suggestions[2]) = 0

(* C15: in the re-entrant loop of bin/commit-cat.mjs a batch over a        *)
(* non-empty selection never ends the run, whatever happens to a selected  *)
(* finding: the run reaches the confirm that precedes the re-stage and the *)
(* menu, every selected finding was either injected or is still pending.   *)
C15_FailedInjectionNeverFatal ==
  [][(variant = "cat" /\ pc = "select" /\ answer' = Answer("selection") /\ selected' # <<>>) =>
       /\ pc' = "commitNow"
       /\ exitCode' = -1
       /\ "console.error" \notin output'
       /\ \A i \in RangeOf(selected') \ NewlyApplied :
            \E j \in DOMAIN suggestions' : suggestions'[j] = suggestions[i]]_vars

(* the i-th smallest element of a set of indices *)
NthOf(S, n) == CHOOSE i \in S : Cardinality({k \in S : k < i}) = n - 1

(* C16: a completed batch of the re-entrant loop leaves as pending list    *)
(* the previous list without the selected findings it injected, the others *)
(* in their order; the applied count is the number removed; and when the   *)
(* menu is shown again every file the run has rewritten is staged and no   *)
(* working-tree change is left unstaged.  The single-pass menu of          *)
(* src/ui.js counts the same way and re-stages right after the batch.      *)
C16_BatchRemovesExactlyApplied ==
  /\ [][(variant = "cat" /\ pc = "select" /\ pc' = "commitNow") =>
          LET kept == DOMAIN suggestions \ NewlyApplied IN
          /\ NewlyApplied \subseteq RangeOf(selected')
          /\ Len(suggestions') = Cardinality(kept)
          /\ \A j \in DOMAIN suggestions' : suggestions'[j] = suggestions[NthOf(kept, j)]
          /\ appliedCount' = Len(suggestions) - Len(suggestions')]_vars
  /\ [][(variant = "cat" /\ pc = "commitNow" /\ pc' = "menu") =>
          /\ stageCalls' = stageCalls + 1
          /\ unstaged' = <<>>
          /\ \A path \in DOMAIN content :
               content[path] # InitContent[path] => path \in RangeOf(staged')]_vars
  /\ [][(variant = "clack" /\ pc = "select" /\ pc' = "commitNow") =>
          /\ NewlyApplied \subseteq RangeOf(selected')
          /\ appliedCount' = Cardinality(NewlyApplied)
          /\ stageCalls' = stageCalls + 1
          /\ unstaged' = <<>>
          /\ \A path \in DOMAIN content :
               content'[path] # InitContent[path] => path \in RangeOf(staged')]_vars

C16_Witness ==
  /\ variant = "cat"
  /\ pc = "menu"
  /\ answer = Answer("yes")
  /\ selected = <<2>>
  /\ appliedCount = 1
  /\ Len(suggestions) = 2
  /\ suggestions[1].message = "1"
  /\ suggestions[2].message = "3"
  /\ "b.py" \in RangeOf(staged)

(* C17: when the action menu is shown with no pending suggestion the       *)
(* annotate option cannot be chosen; the annotate branch is only entered,  *)
(* and the multiselect only shown, with a non-empty list of suggestions.   *)
C17_AnnotateDisabledWhenEmpty ==
  /\ []((pc = "menu" /\ suggestions = <<>>) => ~ENABLED ActionIssues)
  /\ [](pc = "select" => (suggestions # <<>> /\ result = "ok"))
  /\ [][answer' = Answer("issues") => (pc = "menu" /\ suggestions # <<>>)]_vars

C17_Witness ==
  /\ variant = "cat"
  /\ pc = "menu"
  /\ rounds < MaxRounds
  /\ suggestions = <<>>
  /\ appliedCount > 0
  /\ answer = Answer("yes")

(* C18: the temporary file of the edit action does not outlive the action: *)
(* whichever way the edit ends (message saved, file removed by the editor, *)
(* read error), .COMMIT_EDITMSG_TEMP does not exist afterwards.            *)
C18_TempFileAlwaysRemoved ==
  (variant # "smart" /\ answer = Answer("edit")) => ~tempFile

(* the first and the last character of a message are not white space *)
IsTrimmed(str) == str = <<>> \/ (~IsSpace(str[1]) /\ ~IsSpace(str[Len(str)]))

(* C19: the current message is set when the review arrives, to its         *)
(* commitMessage; afterwards only the edit action changes it, to the text  *)
(* read back from the editor's file without its leading and trailing white *)
(* space, and in the re-entrant loop the menu follows; the report, the     *)
(* annotate batch and its confirm leave the message as it is.              *)
C19_MessageChangedOnlyByEdit ==
  /\ [][(pc = "request" /\ result' = "ok") => currentMessage' = commitMessage]_vars
  /\ [][(pc # "request" /\ currentMessage' # currentMessage) =>
          /\ pc = "menu"
          /\ answer' = Answer("edit")
          /\ IsTrimmed(currentMessage')
          /\ \E text \in EditedTexts \cup {currentMessage} :
               /\ Len(currentMessage') <= Len(text)
               /\ \E i \in 1..(Len(text) + 1 - Len(currentMessage')) :
                    /\ currentMessage' = SubSeq(text, i, i + Len(currentMessage') - 1)
                    /\ \A j \in 1..Len(text) :
                         (j < i \/ j >= i + Len(currentMessage')) => IsSpace(text[j])]_vars
  /\ [][(variant = "cat" /\ answer' = Answer("edit") /\ "console.error" \notin output')
          => pc' = "menu"]_vars
  /\ [][(pc \in {"select", "commitNow"}) => currentMessage' = currentMessage]_vars

C19_Witness ==
  /\ variant = "cat"
  /\ pc = "menu"
  /\ answer = Answer("edit")
  /\ currentMessage = <<"e">>
  /\ tempFile = FALSE

(* C20: the text git is given for the commit is the current message,       *)
(* character for character, whatever characters the message holds.         *)
C20_MessageCommittedVerbatim ==
  (result = "ok" /\ commitLog # <<>> /\ commitLog[1].ok) =>
    /\ commitLog[1].msg = currentMessage
    /\ commitLog[1].given = currentMessage

---------------------------------------------------------------------------
(* the answers that ask for an effect: a confirmation, the commit option,  *)
(* the annotate option and a submitted multiselect                         *)
Affirmative ==
  {Answer("yes"), Answer("commit"), Answer("issues"), Answer("selection")}

(* C21: no step stages the working tree, rewrites a source file or         *)
(* attempts a commit unless the prompt answered in that step returned an   *)
(* affirmative answer; in particular nothing of the kind happens before    *)
(* the first prompt of the run.                                            *)
C21_NoEffectWithoutAffirmation ==
  [][ (stageCalls' > stageCalls \/ writes' > writes \/ commitLog' # commitLog)
        => answer' \in Affirmative ]_vars

---------------------------------------------------------------------------
(* the step of the run a position of main belongs to: 1 staging check,     *)
(* 2 diff collection, 3 review request, 4 report and action menu,          *)
(* 5 terminated                                                            *)
StepOf(p) ==
  CASE p = "start" -> 0
    [] p \in {"stage", "confirmStage"} -> 1
    [] p \in {"getDiff", "collect"} -> 2
    [] p = "request" -> 3
    [] p \in {"menu", "select", "commitNow", "editConfirm"} -> 4
    [] p = "exited" -> 5

(* C22: in the two entry points with a collector the run never goes back   *)
(* to an earlier step; the endpoint has been called only when every listed *)
(* file has been processed and the run is at the request step or later;    *)
(* a commit attempt or a source rewrite exists only when a review result   *)
(* has been received from the one call and the report has been printed.    *)
C22_StepsInOrder ==
  /\ [][ variant # "smart" => StepOf(pc') >= StepOf(pc) ]_vars
  /\ [](variant # "smart" =>
         /\ (genCalls > 0 => pos = Len(stagedFiles) /\ StepOf(pc) >= 3)
         /\ (StepOf(pc) = 4 => "report" \in output /\ result \in {"ok", "nofields"})
         /\ (commitLog # <<>> \/ writes > 0 =>
               /\ genCalls = 1
               /\ "report" \in output
               /\ result \in {"ok", "nofields"}))

(* a run that went through every step, annotated a file and committed *)
C22_Witness ==
  /\ variant = "cat"
  /\ pc = "exited"
  /\ writes > 0
  /\ Len(commitLog) = 1
  /\ genCalls = 1
  /\ pos = Len(stagedFiles)
  /\ pos > 0

---------------------------------------------------------------------------
(* the review call is made with a payload that is empty or only white      *)
(* space: generateReviewAndCommit returns null before it builds a request  *)
EmptyPayloadCall ==
  pc = "request" /\ variant = "cat" /\ StrLen(fullDiff) = 0

(* C23 as stated: every review call sends exactly one request, and a run   *)
(* sends at most one.                                                      *)
C23_ExactlyOneRequestPerCall ==
  /\ [](genCalls <= 1)
  /\ [][ pc = "request" => genCalls' = genCalls + 1 ]_vars

(* C23, amended: a review call with a non-empty payload sends exactly one  *)
(* request and a call with an empty payload sends none; whatever the       *)
(* endpoint answers the run never comes back to the request step, so a     *)
(* failed call is not repeated; a run sends at most one request.           *)
C23_OneRequestUnlessEmptyPayload ==
  /\ [](genCalls <= 1)
  /\ [][ pc = "request" =>
           /\ genCalls' = genCalls + (IF EmptyPayloadCall THEN 0 ELSE 1)
           /\ pc' # "request" ]_vars
  /\ [][ genCalls > 0 => genCalls' = genCalls /\ pc' # "request" ]_vars

(* a call that failed in transport has ended the run after one request *)
C23_Witness ==
  /\ response \in {"ratelimit", "transport"}
  /\ variant = "cat"
  /\ genCalls = 1
  /\ pc = "exited"
  /\ exitCode = 1

---------------------------------------------------------------------------
(* Function-level specifications: one function is applied to an argument   *)
(* drawn from a bounded set; main does not run.                            *)
NoRun ==
  /\ apiKey = TRUE
  /\ pc = "request"
  /\ exitCode = -1
  /\ output = {}
  /\ cancelled = FALSE
  /\ answer = NoAnswer
  /\ staged = <<>>
  /\ unstaged = <<>>
  /\ outside = FALSE
  /\ stagedFiles = <<>>
  /\ pos = 0
  /\ fullDiff = <<>>
  /\ totalSize = 0
  /\ skippedFiles = <<>>
  /\ genCalls = 0
  /\ prompt = <<>>
  /\ response = "none"
  /\ result = "none"
  /\ suggestions = <<>>
  /\ currentMessage = NoMessage
  /\ commitLog = <<>>
  /\ stageCalls = 0
  /\ writes = 0
  /\ content = InitContent
  /\ tempFile = FALSE
  /\ selected = <<>>
  /\ appliedCount = 0
  /\ rounds = 0

progVars == <<variant, apiKey, pc, exitCode, output, cancelled, answer, staged, unstaged,
              outside, stagedFiles, pos, fullDiff, totalSize, skippedFiles,
              genCalls, prompt, response, result, suggestions, currentMessage, commitLog,
              stageCalls, writes, content, tempFile, selected, appliedCount, rounds>>

---------------------------------------------------------------------------
(* The response text and its parsing: src/ui.js:87-109 and 330-334.        *)
MaxBody == 5       \* longest response text, in pieces

(* The pieces a response text is made of: a run of three backticks, the    *)
(* word json with the newline after it, a newline, a well-formed JSON      *)
(* object, and text that is not JSON                                       *)
BodyPieces == {"<bq3>", "json\n", "\n", "{ok}", "x"}

(* response.text() gave undefined: no candidate in the answer *)
NoBody == <<"<undefined>">>

(* !text *)
Falsy(text) == text = NoBody \/ text = <<>>

(* text.replace(/<bq3>json\n|\n<bq3>/g, ""): src/ui.js:93 *)
RECURSIVE replaceFences(_)
replaceFences(text) ==
  IF text = <<>> THEN <<>>
  ELSE IF Len(text) >= 2 /\ text[1] = "<bq3>" /\ text[2] = "json\n"
  THEN replaceFences(SubSeq(text, 3, Len(text)))
  ELSE IF Len(text) >= 2 /\ text[1] = "\n" /\ text[2] = "<bq3>"
  THEN replaceFences(SubSeq(text, 3, Len(text)))
  ELSE <<text[1]>> \o replaceFences(Tail(text))

(* .replace(/<bq3>/g, ""): src/ui.js:94 *)
replaceBackticks(text) == SelectSeq(text, LAMBDA c : c # "<bq3>")

(* cleanText: src/ui.js:92-95 *)
cleanText(text) == trim(replaceBackticks(replaceFences(text)))

(* JSON.parse: white space around one value is accepted, anything else is  *)
(* a SyntaxError                                                           *)
JSONparse(text) ==
  LET t == trim(text)
  IN IF Len(t) = 1 /\ t[1] = "{ok}"
     THEN [ok |-> TRUE, value |-> t[1]]
     ELSE [ok |-> FALSE, value |-> "none"]

Returns(value)  == [threw |-> FALSE, message |-> NoMessage, value |-> value]
Throws(message) == [threw |-> TRUE, message |-> message, value |-> "none"]

(* pieces that stand for a run of that many plain characters *)
RunPieces == [x100 |-> 100, x196 |-> 196, x197 |-> 197, x198 |-> 198, x199 |-> 199,
              x200 |-> 200, x201 |-> 201, x250 |-> 250]

Run(n) == [i \in 1..n |-> "x"]

(* the characters of a piece of text *)
charsOf(piece) ==
  CASE piece \in DOMAIN RunPieces -> Run(RunPieces[piece])
    [] piece = "<bq3>"  -> <<"<bq>", "<bq>", "<bq>">>
    [] piece = "json\n" -> <<"j", "s", "o", "n", "\n">>
    [] piece = "{ok}"   -> <<"{", "o", "k", "}">>
    [] OTHER            -> <<piece>>

(* a text, character by character *)
RECURSIVE chars(_)
chars(text) == IF text = <<>> THEN <<>> ELSE charsOf(Head(text)) \o chars(Tail(text))

SnippetLength == 200

(* fault: the whole cleaned text is shown *)
snippetWhole(clean) == chars(clean)

(* snippet: src/ui.js:100-103 *)
snippet(clean) ==
  IF Len(chars(clean)) > SnippetLength
  THEN SubSeq(chars(clean), 1, SnippetLength) \o <<".", ".", ".">>
  ELSE chars(clean)

(* fault: when the cleaned text does not parse, the first object found in  *)
(* it is returned                                                          *)
parseReviewGuessing(text) ==
  IF Falsy(text) THEN Throws(<<"errors.empty_response">>)
  ELSE IF JSONparse(cleanText(text)).ok
  THEN Returns(JSONparse(cleanText(text)).value)
  ELSE IF "{ok}" \in RangeOf(text) THEN Returns("{ok}")
  ELSE Throws(<<"errors.json_parse", "\nRaw: ">> \o snippet(cleanText(text)))

(* generateReviewAndCommit from the response text on: src/ui.js:87-109;    *)
(* the message is the catalogue key, "\nRaw: " and the snippet's characters *)
parseReview(text) ==
  IF Falsy(text) THEN Throws(<<"errors.empty_response">>)
  ELSE IF JSONparse(cleanText(text)).ok
  THEN Returns(JSONparse(cleanText(text)).value)
  ELSE Throws(<<"errors.json_parse", "\nRaw: ">> \o snippet(cleanText(text)))

(* callGemini from the response text on: src/ui.js:330-334; the text is    *)
(* parsed as it is                                                         *)
callGemini_parse(text) ==
  IF Falsy(text) THEN Throws(<<"Empty response from AI">>)
  ELSE IF JSONparse(text).ok
  THEN Returns(JSONparse(text).value)
  ELSE Throws(<<"SyntaxError">>)

(* the value the applied function returned *)
Ret == returned[1]

InitParse ==
  /\ NoRun
  /\ variant \in {"cat", "clack"}
  /\ args \in {[text |-> t] : t \in SeqsUpTo(BodyPieces, MaxBody) \cup {NoBody}}
  /\ returned = NoCall

ParseResponse ==
  /\ returned = NoCall
  /\ returned' = << IF variant = "cat" THEN parseReview(args.text)
                                       ELSE callGemini_parse(args.text) >>
  /\ UNCHANGED <<progVars, args>>

SpecParse == InitParse /\ [][ParseResponse]_vars

(* the message of the empty-response error of each of the two functions *)
EmptyResponseMessage ==
  IF variant = "cat" THEN <<"errors.empty_response">> ELSE <<"Empty response from AI">>

(* C24: an empty or missing response text ends in the empty-response       *)
(* error; a non-empty text that is not JSON once its fences are stripped   *)
(* ends in an error with another message (the parse failure) and carries   *)
(* no value; a value is returned only when it is what the text parses to.  *)
C24_EmptyAndUnparseableDistinct ==
  returned # NoCall =>
    /\ Falsy(args.text) =>
          Ret.threw /\ Ret.message = EmptyResponseMessage
    /\ (~Falsy(args.text) /\ ~JSONparse(cleanText(args.text)).ok) =>
          /\ Ret.threw
          /\ Ret.value = "none"
          /\ Ret.message # EmptyResponseMessage
          /\ Ret.message[1] \in {"errors.json_parse", "SyntaxError"}
    /\ ~Ret.threw =>
          /\ JSONparse(cleanText(args.text)).ok
          /\ Ret.value = JSONparse(cleanText(args.text)).value

(* a text that holds fences and a JSON object and still does not parse     *)
(* once the fences are stripped has been rejected as a parse failure       *)
C24_Witness ==
  /\ variant = "cat"
  /\ returned # NoCall
  /\ args.text # NoBody
  /\ "<bq3>" \in RangeOf(args.text)
  /\ "{ok}" \in RangeOf(args.text)
  /\ Ret.threw
  /\ Ret.message[1] = "errors.json_parse"

---------------------------------------------------------------------------
(* C25: in the re-entrant entry point a parsed response without the        *)
(* documented shape (JSON null, or an object without commitMessage) is     *)
(* rejected as a request failure, and the run is never at the action menu  *)
(* or in one of its branches with an undefined commit message.             *)
C25_MalformedResultRejected ==
  variant = "cat" =>
    /\ response \in {"null", "nofields"} =>
          pc = "exited" /\ exitCode = 1 /\ "AI Error" \in output
    /\ StepOf(pc) = 4 => currentMessage # Undefined

---------------------------------------------------------------------------
(* Layout: src/utils.js:20-58.  A text is a sequence of characters.        *)

(* characters whose code is above 255 *)
(* str.charCodeAt(i) of the characters that are not ASCII letters, digits  *)
(* or punctuation: "e" is e-acute (233), "y" is y-diaeresis (255), "L" is  *)
(* A-macron (256), "W" is the Hangul syllable U+D55C, "H" and "S" are the  *)
(* two UTF-16 units of an emoji; every other character of the model stands *)
(* for itself and is ASCII                                                 *)
CharCodes == ("e" :> 233) @@ ("y" :> 255) @@ ("L" :> 256) @@ ("W" :> 54620)
             @@ ("H" :> 55357) @@ ("S" :> 56832)

charCodeAt(c) == IF c \in DOMAIN CharCodes THEN CharCodes[c] ELSE 65

WideChars == {c \in DOMAIN CharCodes : CharCodes[c] > 255}

(* fault: everything outside ASCII is wide *)
charWidthAscii(c) == IF charCodeAt(c) > 127 THEN 2 ELSE 1

(* getVisualWidth of one character: src/utils.js:23-25 *)
charWidth(c) == IF charCodeAt(c) > 255 THEN 2 ELSE 1

(* getVisualWidth: src/utils.js:20-28 *)
RECURSIVE getVisualWidth(_)
getVisualWidth(str) ==
  IF str = <<>> THEN 0 ELSE charWidth(Head(str)) + getVisualWidth(Tail(str))

(* text.split("\n") *)
RECURSIVE splitLines(_, _)
splitLines(text, cur) ==
  IF text = <<>> THEN <<cur>>
  ELSE IF Head(text) = "\n" THEN <<cur>> \o splitLines(Tail(text), <<>>)
  ELSE splitLines(Tail(text), Append(cur, Head(text)))

(* lines.join("\n") *)
RECURSIVE joinLines(_)
joinLines(lines) ==
  IF lines = <<>> THEN <<>>
  ELSE IF Len(lines) = 1 THEN lines[1]
  ELSE lines[1] \o <<"\n">> \o joinLines(Tail(lines))

(* process.stdout.columns is undefined: not a terminal *)
NoColumns == 0

(* the limit of src/utils.js:32-37; a maxWidth of 0 selects the default *)
wrapLimit(maxWidth, columns) ==
  IF maxWidth # 0 THEN maxWidth
  ELSE Min(80, (IF columns # NoColumns THEN columns ELSE 80) - 12)

(* fault: the line is closed one character too late *)
overflowsLate(currentWidth, width, limit) == currentWidth > limit

(* the test of src/utils.js:46 *)
overflows(currentWidth, width, limit) == currentWidth + width > limit

(* the inner loop of src/utils.js:41-55 over one paragraph: the lines it   *)
(* pushes                                                                  *)
RECURSIVE wrapParagraph(_, _, _, _)
wrapParagraph(paragraph, limit, currentLine, currentWidth) ==
  IF paragraph = <<>> THEN <<currentLine>>
  ELSE LET char == Head(paragraph) IN
       IF overflows(currentWidth, charWidth(char), limit)
       THEN <<currentLine>> \o wrapParagraph(Tail(paragraph), limit, <<char>>, charWidth(char))
       ELSE wrapParagraph(Tail(paragraph), limit, Append(currentLine, char),
                          currentWidth + charWidth(char))

RECURSIVE wrapParagraphs(_, _)
wrapParagraphs(paragraphs, limit) ==
  IF paragraphs = <<>> THEN <<>>
  ELSE wrapParagraph(Head(paragraphs), limit, <<>>, 0) \o wrapParagraphs(Tail(paragraphs), limit)

(* fault: white space at the start of a pushed line is dropped *)
wrapLinesTrimmed(text, maxWidth, columns) ==
  LET pushed == wrapParagraphs(splitLines(text, <<>>), wrapLimit(maxWidth, columns))
  IN [i \in DOMAIN pushed |-> trimStart(pushed[i])]

(* the lines wrapText pushes: src/utils.js:39-56 *)
wrapLines(text, maxWidth, columns) ==
  wrapParagraphs(splitLines(text, <<>>), wrapLimit(maxWidth, columns))

(* wrapText: src/utils.js:30-58 *)
wrapText(text, maxWidth, columns) ==
  IF text = <<>> THEN <<>> ELSE joinLines(wrapLines(text, maxWidth, columns))

---------------------------------------------------------------------------
(* The message of a failed request: bin/commit-cat.mjs:104-135.            *)
MaxParts == 4      \* longest error message, in parts

(* the parts an error message is made of *)
SdkPrefix ==
  <<"[", "G", "o", "o", "g", "l", "e", "G", "e", "n", "e", "r", "a", "t",
    "i", "v", "e", "A", "I", " ", "E", "r", "r", "o", "r", "]", ":", " ">>
RateHeader ==
  <<"[", "4", "2", "9", " ", "T", "o", "o", " ", "M", "a", "n", "y", " ",
    "R", "e", "q", "u", "e", "s", "t", "s", "]">>
QuotaText ==
  <<" ", "Q", "u", "o", "t", "a", " ", "e", "x", "c", "e", "e", "d", "e",
    "d">>
Blank == <<" ">>
DiagnosticArray ==
  <<"[", "{", "\"", "@", "t", "y", "p", "e", "\"", ":", "\"", "x", "\"",
    "}", "]">>
Bare429 ==
  <<"c", "o", "d", "e", " ", "4", "2", "9">>
StatusText ==
  <<"[", "5", "0", "3", " ", "U", "n", "a", "v", "a", "i", "l", "a", "b",
    "l", "e", "]", " ", "r", "e", "t", "r", "y">>

MessageParts ==
  {SdkPrefix, RateHeader, QuotaText, Blank, DiagnosticArray, Bare429, StatusText}

RECURSIVE concat(_)
concat(parts) == IF parts = <<>> THEN <<>> ELSE Head(parts) \o concat(Tail(parts))

(* the literals of the handler *)
Lit429 ==
  <<"4", "2", "9">>
LitTooMany ==
  <<"T", "o", "o", " ", "M", "a", "n", "y", " ", "R", "e", "q", "u", "e",
    "s", "t", "s">>
ArrayStart ==
  <<"[", "{", "\"", "@", "t", "y", "p", "e", "\"">>

startsWithAt(str, sub, i) ==
  /\ i >= 1
  /\ i + Len(sub) - 1 <= Len(str)
  /\ SubSeq(str, i, i + Len(sub) - 1) = sub

(* String.prototype.indexOf, 1-based; 0 when there is none *)
indexOf(str, sub) ==
  IF \E i \in 1..Len(str) : startsWithAt(str, sub, i)
  THEN CHOOSE i \in 1..Len(str) :
         /\ startsWithAt(str, sub, i)
         /\ \A j \in 1..(i - 1) : ~startsWithAt(str, sub, j)
  ELSE 0

(* the lookahead (?=\s*\[\{"@type") at position p *)
RECURSIVE arrayAhead(_, _)
arrayAhead(str, p) ==
  IF p <= Len(str) /\ IsSpace(str[p]) THEN arrayAhead(str, p + 1)
  ELSE startsWithAt(str, ArrayStart, p)

NoMatch == <<"<null>">>

(* match[1] of /(\[429 Too Many Requests\].*?)(?=\s*\[\{"@type")/s:       *)
(* from the first header, as little as possible, up to a place where the   *)
(* array follows after optional white space: bin/commit-cat.mjs:114-116    *)
rateLimitMatch(originalMsg) ==
  LET h    == indexOf(originalMsg, RateHeader)
      ends == {p \in (h + Len(RateHeader))..(Len(originalMsg) + 1) : arrayAhead(originalMsg, p)}
  IN IF h = 0 \/ ends = {} THEN NoMatch
     ELSE SubSeq(originalMsg, h, (CHOOSE p \in ends : \A q \in ends : p <= q) - 1)

(* originalMsg.split('[{"@type"')[0]: bin/commit-cat.mjs:121 *)
beforeArray(originalMsg) ==
  LET a == indexOf(originalMsg, ArrayStart)
  IN IF a = 0 THEN originalMsg ELSE SubSeq(originalMsg, 1, a - 1)

(* where /\[(4\d{2}|5\d{2})\s+.*?\]/s can start: a bracket, a status of   *)
(* the 400 or 500 range, white space, and a closing bracket further on     *)
statusAt(str, i) ==
  /\ i + 5 <= Len(str)
  /\ str[i] = "["
  /\ str[i + 1] \in {"4", "5"}
  /\ IsDigit(str[i + 2])
  /\ IsDigit(str[i + 3])
  /\ IsSpace(str[i + 4])
  /\ \E k \in (i + 5)..Len(str) : str[k] = "]"

(* statusMatch[0] of bin/commit-cat.mjs:127-129: the bracketed status and  *)
(* the text after it up to the next bracket, newline or the end            *)
statusMatch(originalMsg) ==
  LET starts == {i \in 1..Len(originalMsg) : statusAt(originalMsg, i)}
  IN IF starts = {} THEN NoMatch
     ELSE LET i == CHOOSE x \in starts : \A y \in starts : x <= y
              k == CHOOSE x \in (i + 5)..Len(originalMsg) :
                     /\ originalMsg[x] = "]"
                     /\ \A y \in (i + 5)..(x - 1) : originalMsg[y] # "]"
              stops == {e \in (k + 1)..Len(originalMsg) : originalMsg[e] \in {"[", "\n"}}
              e == IF stops = {} THEN Len(originalMsg) + 1
                   ELSE CHOOSE x \in stops : \A y \in stops : x <= y
          IN SubSeq(originalMsg, i, e - 1)

(* displayMsg: bin/commit-cat.mjs:104-133 *)
displayMsg(originalMsg) ==
  IF includes(originalMsg, Lit429) \/ includes(originalMsg, LitTooMany)
  THEN IF rateLimitMatch(originalMsg) # NoMatch
       THEN trim(rateLimitMatch(originalMsg))
       ELSE trim(beforeArray(originalMsg))
  ELSE IF statusMatch(originalMsg) # NoMatch
       THEN trim(statusMatch(originalMsg))
       ELSE originalMsg

(* the note of bin/commit-cat.mjs:135 *)
shownMessage(originalMsg, columns) == wrapText(displayMsg(originalMsg), 0, columns)

InitDisplay ==
  /\ NoRun
  /\ variant = "cat"
  /\ args \in {[originalMsg |-> concat(parts), columns |-> c] :
                  parts \in SeqsUpTo(MessageParts, MaxParts), c \in {NoColumns, 40}}
  /\ returned = NoCall

ShowError ==
  /\ returned = NoCall
  /\ returned' = << shownMessage(args.originalMsg, args.columns) >>
  /\ UNCHANGED <<progVars, args>>

SpecDisplay == InitDisplay /\ [][ShowError]_vars

(* the text on the screen without the line breaks of the layout *)
Unwrapped(text) == SelectSeq(text, LAMBDA c : c # "\n")

(* the first diagnostic array that starts at or after position `from`;     *)
(* one past the end of the message when there is none                      *)
ArrayFrom(msg, from) ==
  LET as == {a \in from..Len(msg) : startsWithAt(msg, ArrayStart, a)}
  IN IF as = {} THEN Len(msg) + 1 ELSE CHOOSE a \in as : \A b \in as : a <= b

(* C26: for an error text that holds the rate-limit header, the            *)
(* text shown is (up to the line breaks of the layout) the part from the   *)
(* header to the start of the diagnostic array, or to the end of the text  *)
(* when there is no array, without surrounding white space.                *)
C26_ShownFromRateLimitHeader ==
  (returned # NoCall /\ includes(args.originalMsg, RateHeader)) =>
    LET msg == args.originalMsg
        h   == indexOf(msg, RateHeader)
    IN Unwrapped(Ret) = trim(SubSeq(msg, h, ArrayFrom(msg, h) - 1))

---------------------------------------------------------------------------
(* The injector on one file: bin/commit-cat.mjs:258-280, src/ui.js:612-635 *)
(* and bin/commit-cat.mjs:586-603.                                         *)
MaxLines == 3      \* longest file, in lines

(* the lines a file is made of; content.split("\n") gives at least one *)
LineKinds == { <<"f">>, <<" ", " ", "r">>, <<"}">>, <<>>, <<"\t", "r", "x">> }

ContextLines == { <<>>, <<"r">>, <<" ", "r", " ">>, <<" ">>, <<"z">> }

LineNumbers ==
  { <<>>, <<"0">>, <<"1">>, <<"2">>, <<"9">>, <<"x">>, <<"-", "1">>, <<"2", "x">> }

InitInject ==
  /\ NoRun
  /\ variant \in Variants
  /\ args \in {[item |-> Finding("1", path, ln, ctx), lines |-> ls] :
                  path \in {"a.js", "b.py"}, ln \in LineNumbers, ctx \in ContextLines,
                  ls \in {l \in SeqsUpTo(LineKinds, MaxLines) : l # <<>>}}
  /\ returned = NoCall

(* the first version has the context-line rule only *)
InjectOne ==
  /\ returned = NoCall
  /\ returned' = << IF variant = "smart"
                    THEN injectByContext(args.item, args.lines,
                                         getCommentSyntax(args.item.filePath, args.item.message))
                    ELSE injectOne(args.item, args.lines) >>
  /\ UNCHANGED <<progVars, args>>

SpecInject == InitInject /\ [][InjectOne]_vars

(* the comment line of the finding under injection *)
TodoOf(item) == getCommentSyntax(item.filePath, item.message)

(* `after` is `before` with the one line `line` inserted at position `at`  *)
(* (1-based) and nothing else changed                                      *)
InsertedAt(before, after, at, line) ==
  /\ Len(after) = Len(before) + 1
  /\ after[at] = line
  /\ \A j \in 1..(at - 1) : after[j] = before[j]
  /\ \A j \in at..Len(before) : after[j + 1] = before[j]

(* ws is the leading white space of line, all of it *)
IsLeadingSpaceOf(ws, line) ==
  /\ Len(ws) <= Len(line)
  /\ ws = SubSeq(line, 1, Len(ws))
  /\ \A k \in 1..Len(ws) : IsSpace(ws[k])
  /\ Len(ws) < Len(line) => ~IsSpace(line[Len(ws) + 1])

(* C27: when the finding has a context line and some line of the file      *)
(* contains its trimmed text, the result is the file with exactly one line *)
(* inserted immediately before the first such line: the leading white      *)
(* space of that line followed by the comment; every other line keeps its  *)
(* content and order.                                                      *)
C27_ContextLineInsertion ==
  (returned # NoCall /\ args.item.contextLine # <<>>) =>
    LET t    == trim(args.item.contextLine)
        hits == {i \in 1..Len(args.lines) : includes(args.lines[i], t)}
    IN hits # {} =>
         LET first == CHOOSE i \in hits : \A j \in hits : i <= j
         IN /\ Ret.injected
            /\ \E ws \in {SubSeq(args.lines[first], 1, k) : k \in 0..Len(args.lines[first])} :
                 /\ IsLeadingSpaceOf(ws, args.lines[first])
                 /\ InsertedAt(args.lines, Ret.lines, first, ws \o TodoOf(args.item))

(* the example of the claim: the comment becomes the second line, with a   *)
(* two-space indent                                                        *)
C27_Witness ==
  /\ returned # NoCall
  /\ variant = "cat"
  /\ args.lines = << <<"f">>, <<" ", " ", "r">>, <<"}">> >>
  /\ args.item.contextLine = <<"r">>
  /\ args.item.filePath = "a.js"
  /\ Ret.injected
  /\ Ret.lines = << <<"f">>, <<" ", " ", "/", "/", " ", "TODO: [AI]", "1">>, <<" ", " ", "r">>, <<"}">> >>

(* C28: in the two entry points with a line-number rule, for a finding     *)
(* whose context line is absent or matches no line: when lineNumber parses *)
(* as an integer n >= 1 and the file has n lines or more, the comment is   *)
(* inserted immediately before line n, without indentation, whatever that  *)
(* line holds; when lineNumber is absent, not a number, below 1 or beyond  *)
(* the last line, nothing is injected and the lines are unchanged.         *)
C28_LineNumberInsertion ==
  (returned # NoCall /\ variant # "smart"
     /\ (args.item.contextLine = <<>>
         \/ \A i \in 1..Len(args.lines) : ~includes(args.lines[i], trim(args.item.contextLine)))) =>
    LET n == IF args.item.lineNumber = <<>> THEN NaN ELSE parseInt(args.item.lineNumber)
    IN IF ~n.nan /\ n.val >= 1 /\ n.val <= Len(args.lines)
       THEN /\ Ret.injected
            /\ InsertedAt(args.lines, Ret.lines, n.val, TodoOf(args.item))
       ELSE /\ ~Ret.injected
            /\ Ret.lines = args.lines

---------------------------------------------------------------------------
(* The comment syntax of a path: src/git.js:28-49, src/ui.js:276-298,      *)
(* bin/commit-cat.mjs:553-576.  A path is a sequence of parts: names, the  *)
(* dot and the separator.                                                  *)
MaxPath == 4       \* longest path, in parts

PathNames == {"a", "py", "PY", "css", "sass", "md", "html", "ts"}
PathParts == PathNames \cup {".", "/"}

(* String.prototype.toLowerCase on a part *)
toLowerCase(part) == IF part = "PY" THEN "py" ELSE part

RECURSIVE joinLower(_)
joinLower(parts) ==
  IF parts = <<>> THEN "" ELSE toLowerCase(Head(parts)) \o joinLower(Tail(parts))

(* the last position of part c in parts; 0 when there is none *)
lastIndexOf(parts, c) ==
  LET is == {i \in 1..Len(parts) : parts[i] = c}
  IN IF is = {} THEN 0 ELSE CHOOSE i \in is : \A j \in is : j <= i

RECURSIVE dropTrailingSeparators(_)
dropTrailingSeparators(parts) ==
  IF parts # <<>> /\ parts[Len(parts)] = "/"
  THEN dropTrailingSeparators(SubSeq(parts, 1, Len(parts) - 1))
  ELSE parts

(* path.extname(filePath).toLowerCase(): the last path component from its  *)
(* last dot on; empty when it has no dot, when the dot is its first        *)
(* character, or when the component is ".."                                *)
pathExtname(filePath) ==
  LET p    == dropTrailingSeparators(filePath)
      base == SubSeq(p, lastIndexOf(p, "/") + 1, Len(p))
      dot  == lastIndexOf(base, ".")
  IN IF dot <= 1 \/ base = <<".", ".">> THEN ""
     ELSE joinLower(SubSeq(base, dot, Len(base)))

InitSyntax ==
  /\ NoRun
  /\ variant \in Variants
  /\ args \in {[filePath |-> p, message |-> "1"] : p \in SeqsUpTo(PathParts, MaxPath)}
  /\ returned = NoCall

GetCommentSyntax ==
  /\ returned = NoCall
  /\ returned' = << commentSyntax(pathExtname(args.filePath), args.message) >>
  /\ UNCHANGED <<progVars, args>>

SpecSyntax == InitSyntax /\ [][GetCommentSyntax]_vars

(* the style of a comment line, read off its delimiters *)
StyleOf(comment) ==
  CASE comment[1] = "#" -> "hash"
    [] comment[1] = "<" -> "markup"
    [] comment[1] = "/" /\ comment[2] = "*" -> "block"
    [] comment[1] = "/" /\ comment[2] = "/" -> "line"

(* C29: the style of the comment is the hash style for .yml, .yaml, .py,   *)
(* .sh, .rb, .dockerfile and .toml, the block style for the stylesheet     *)
(* extensions .css, .scss, .less and .sass, the markup style for .md, and  *)
(* the line style for every other extension and for no extension, in each  *)
(* of the three copies of the function.                                    *)
C29_StyleByExtension ==
  returned # NoCall =>
    LET ext == pathExtname(args.filePath)
    IN StyleOf(Ret) =
         IF ext \in {".yml", ".yaml", ".py", ".sh", ".rb", ".dockerfile", ".toml"} THEN "hash"
         ELSE IF ext \in {".css", ".scss", ".less", ".sass"} THEN "block"
         ELSE IF ext = ".md" THEN "markup"
         ELSE "line"

---------------------------------------------------------------------------
(* wrapText on its own: src/utils.js:30-58, called with an explicit limit  *)
(* as in the layout test.                                                  *)
MaxText  == 5      \* longest text, in characters
MaxLimit == 3      \* largest explicit limit

(* "W" stands for a character above code 255; the others are ASCII *)
TextChars == {"a", "b", " ", "\n", "W"}

InitWrap ==
  /\ NoRun
  /\ variant = "cat"
  /\ args \in {[text |-> t, maxWidth |-> L, columns |-> 100] :
                  t \in SeqsUpTo(TextChars, MaxText), L \in 1..MaxLimit}
  /\ returned = NoCall

WrapText ==
  /\ returned = NoCall
  /\ returned' = << wrapText(args.text, args.maxWidth, args.columns) >>
  /\ UNCHANGED <<progVars, args>>

SpecWrap == InitWrap /\ [][WrapText]_vars

IsAscii(text) == \A i \in 1..Len(text) : text[i] \notin WideChars

(* C30: for an ASCII-only text and an explicit limit L >= 1, every line of *)
(* the text wrapText returns has a visual width of at most L.              *)
C30_WrappedLinesWithinLimit ==
  (returned # NoCall /\ IsAscii(args.text) /\ args.maxWidth >= 1) =>
    \A i \in 1..Len(splitLines(Ret, <<>>)) :
      getVisualWidth(splitLines(Ret, <<>>)[i]) <= args.maxWidth

(* a paragraph longer than the limit has been broken *)
C30_Witness ==
  /\ returned # NoCall
  /\ args.text = <<"a", "b", " ", "a", "b">>
  /\ args.maxWidth = 2
  /\ Ret = <<"a", "b", "\n", " ", "a", "\n", "b">>

---------------------------------------------------------------------------
(* getFileDiff on one path: src/ui.js:247-274 and src/git.js:7-26.         *)
(* every combination of what the collector can observe of a path *)
FileAttrs ==
  [ign : BOOLEAN, bin : BOOLEAN, statErr : BOOLEAN, size : {10, MAX_FILE_SIZE, MAX_FILE_SIZE + 1},
   diffErr : BOOLEAN, diffLen : {0, 1, MAX_FILE_SIZE, MAX_FILE_SIZE + 1},
   nameLen : {4}, errLen : {30}]

InitFilter ==
  /\ NoRun
  /\ variant \in {"cat", "clack"}
  /\ args \in {[file |-> f] : f \in FileAttrs}
  /\ returned = NoCall

GetFileDiff ==
  /\ returned = NoCall
  /\ returned' = << IF variant = "clack" THEN ui_getFileDiffOn(args.file)
                                         ELSE git_getFileDiffOn(args.file) >>
  /\ UNCHANGED <<progVars, args>>

SpecFilter == InitFilter /\ [][GetFileDiff]_vars

(* C31: a path is classified by the first filter that matches, in the      *)
(* order ignore substring, binary extension, size on disk above the cap,   *)
(* diff text above the cap; a path with an ignore substring is "ignored"   *)
(* whatever else holds of it, a missing file on disk included.             *)
C31_FirstMatchingFilter ==
  returned # NoCall =>
    LET f == args.file
    IN /\ f.ign => Ret.reason = "ignored"
       /\ (~f.ign /\ f.bin) => Ret.reason = "binary"
       /\ (~f.ign /\ ~f.bin /\ ~f.statErr /\ f.size > MAX_FILE_SIZE) => Ret.reason = "too large"
       /\ (~f.ign /\ ~f.bin /\ ~f.statErr /\ f.size <= MAX_FILE_SIZE /\ ~f.diffErr
             /\ f.diffLen > MAX_FILE_SIZE) => Ret.reason = "diff too large"

---------------------------------------------------------------------------
(* C32: the diff text that reaches the endpoint is never longer than       *)
(* 5,000 characters: it is the first 5,000 characters of the collected     *)
(* diff when that is longer and the whole collected diff otherwise.        *)
C32_PromptDiffAtMostCeiling ==
  genCalls > 0 =>
    /\ StrLen(prompt) <= PromptCeiling
    /\ prompt = substring(fullDiff, PromptCeiling)

---------------------------------------------------------------------------
(* The snippet of a parse failure: src/ui.js:97-109.                       *)
MaxTail == 3       \* pieces after the run of plain characters

(* what a response text starts with: nothing or a run of plain characters *)
Starts == {<<>>} \cup {<<r>> : r \in DOMAIN RunPieces}

TailPieces == {"x", " ", "<bq3>", "{ok}"}

InitSnippet ==
  /\ NoRun
  /\ variant = "cat"
  /\ args \in {[text |-> r \o t] : r \in Starts, t \in SeqsUpTo(TailPieces, MaxTail)}
  /\ returned = NoCall

ParseLong ==
  /\ returned = NoCall
  /\ returned' = << parseReview(args.text) >>
  /\ UNCHANGED <<progVars, args>>

SpecSnippet == InitSnippet /\ [][ParseLong]_vars

(* C33: the parse-failure error carries the whole cleaned text when that   *)
(* is 200 characters or shorter, and otherwise its first 200 characters    *)
(* followed by an ellipsis: never the full text of a longer response.      *)
C33_SnippetBounded ==
  (returned # NoCall /\ Ret.threw /\ Ret.message[1] = "errors.json_parse") =>
    LET clean == chars(cleanText(args.text))
        raw   == SubSeq(Ret.message, 3, Len(Ret.message))
    IN /\ Ret.message[2] = "\nRaw: "
       /\ Len(clean) <= SnippetLength => raw = clean
       /\ Len(clean) > SnippetLength =>
             /\ raw = SubSeq(clean, 1, SnippetLength) \o <<".", ".", ".">>
             /\ raw # clean

(* a cleaned text of more than 200 characters has been rejected *)
C33_Witness ==
  /\ returned # NoCall
  /\ Ret.threw
  /\ Ret.message[1] = "errors.json_parse"
  /\ Len(chars(cleanText(args.text))) > SnippetLength
  /\ Len(Ret.message) = SnippetLength + 5

---------------------------------------------------------------------------
(* getVisualWidth: src/utils.js:20-28.                                     *)
MaxStr == 4        \* longest measured string

WidthChars == {"A", "e", "y", "L", "W", "H", "S"}

InitWidth ==
  /\ NoRun
  /\ variant = "cat"
  /\ args \in {[str |-> t] : t \in SeqsUpTo(WidthChars, MaxStr)}
  /\ returned = NoCall

GetVisualWidth ==
  /\ returned = NoCall
  /\ returned' = << getVisualWidth(args.str) >>
  /\ UNCHANGED <<progVars, args>>

SpecWidth == InitWidth /\ [][GetVisualWidth]_vars

(* C34: the visual width of a string is 1 for each of its characters plus  *)
(* 1 more for each character whose code is above 255.                      *)
C34_WidthIsSumOfCharWidths ==
  returned # NoCall =>
    Ret = Len(args.str)
          + Cardinality({i \in DOMAIN args.str : charCodeAt(args.str[i]) > 255})

(* a string with a Hangul syllable, a Latin-1 letter and an ASCII letter   *)
(* has been measured                                                       *)
C34_Witness ==
  /\ returned # NoCall
  /\ args.str = <<"W", "y", "A">>
  /\ Ret = 4

---------------------------------------------------------------------------
(* out with some of its line breaks deleted is exactly text *)
RECURSIVE OnlyBreaksInserted(_, _)
OnlyBreaksInserted(text, out) ==
  IF out = <<>> THEN text = <<>>
  ELSE IF text # <<>> /\ Head(text) = Head(out) THEN OnlyBreaksInserted(Tail(text), Tail(out))
  ELSE Head(out) = "\n" /\ OnlyBreaksInserted(text, Tail(out))

(* C35: wrapText only inserts line breaks: its output with the inserted    *)
(* breaks deleted is the input, so every paragraph keeps its place and its *)
(* characters, the line breaks of the input are kept, and the lines made   *)
(* from one paragraph concatenate to that paragraph.                       *)
C35_OnlyLineBreaksInserted ==
  returned # NoCall =>
    /\ OnlyBreaksInserted(args.text, Ret)
    /\ Len(splitLines(Ret, <<>>)) >= Len(splitLines(args.text, <<>>))
    /\ \A k \in DOMAIN splitLines(args.text, <<>>) :
          LET before == wrapParagraphs(SubSeq(splitLines(args.text, <<>>), 1, k - 1), args.maxWidth)
              own    == wrapParagraph(splitLines(args.text, <<>>)[k], args.maxWidth, <<>>, 0)
              lines  == splitLines(Ret, <<>>)
          IN args.text # <<>> =>
               /\ Len(before) + Len(own) <= Len(lines)
               /\ concat(SubSeq(lines, Len(before) + 1, Len(before) + Len(own)))
                    = splitLines(args.text, <<>>)[k]

(* a text of two paragraphs, one of them broken into several lines, has    *)
(* been wrapped                                                            *)
C35_Witness ==
  /\ returned # NoCall
  /\ args.text = <<"a", " ", "b", "\n", "W">>
  /\ args.maxWidth = 1
  /\ Ret = <<"a", "\n", " ", "\n", "b", "\n", "\n", "W">>

---------------------------------------------------------------------------
(* boxMessage: src/utils.js:60-128.  The frame glyphs are written "tl",    *)
(* "tr", "bl", "br" (corners), "h" (dash) and "v" (bar).                   *)
MaxBoxText == 3    \* longest boxed text

FrameChars == {"tl", "tr", "bl", "br", "h", "v"}

(* c.repeat(n) *)
repeat(c, n) == [i \in 1..n |-> c]

Max(a, b) == IF a > b THEN a ELSE b

(* maxContentWidth: src/utils.js:61-66 *)
maxContentWidth(columns) == Min(80, (IF columns # NoColumns THEN columns ELSE 80) - 4)

(* the widest of the lines: src/utils.js:72-76 *)
RECURSIVE widest(_)
widest(lines) ==
  IF lines = <<>> THEN 0 ELSE Max(getVisualWidth(Head(lines)), widest(Tail(lines)))

(* fault: the title is not taken into account *)
contentWidthOfLines(title, lines) == widest(lines)

(* contentWidth: src/utils.js:71-79 *)
contentWidth(title, lines) == Max(widest(lines), getVisualWidth(title) + 2)

(* boxWidth: src/utils.js:81 *)
boxWidth(title, lines) == contentWidth(title, lines) + 2

(* rightDashes: src/utils.js:103 *)
rightDashes(title, lines) == boxWidth(title, lines) - getVisualWidth(title) - 3

(* padding: src/utils.js:118 *)
padding(title, lines, line) == boxWidth(title, lines) - getVisualWidth(line) - 1

(* topWithTitle: src/utils.js:112-113 *)
topWithTitle(title, lines) ==
  <<"tl", "h", " ">> \o title \o <<" ">> \o repeat("h", Max(0, rightDashes(title, lines)))
    \o <<"tr">>

(* one content row: src/utils.js:117-121 *)
contentRow(title, lines, line) ==
  <<"v", " ">> \o line \o repeat(" ", Max(0, padding(title, lines, line))) \o <<"v">>

(* bottomBorder: src/utils.js:85 *)
bottomBorder(title, lines) == <<"bl">> \o repeat("h", boxWidth(title, lines)) \o <<"br">>

(* out: src/utils.js:88-124 *)
boxRows(title, lines) ==
  <<topWithTitle(title, lines)>>
    \o [i \in DOMAIN lines |-> contentRow(title, lines, lines[i])]
    \o <<bottomBorder(title, lines)>>

(* the wrapped lines: src/utils.js:68-69 *)
boxLines(text, columns) ==
  splitLines(wrapText(text, maxContentWidth(columns), columns), <<>>)

(* boxMessage: src/utils.js:60-128 *)
boxMessage(title, text, columns) == joinLines(boxRows(title, boxLines(text, columns)))

BoxChars == {"a", " ", "\n", "W"}

Titles == { <<>>, <<"T">>, <<"W", "T">>, <<" ", "W", "T", " ">>,
            <<"T", "i", "t", "l", "e", " ", "W">> }

Columns == {NoColumns, 4, 5, 6, 7, 60}

InitBox ==
  /\ NoRun
  /\ variant = "cat"
  /\ args \in {[title |-> t, text |-> x, columns |-> c] :
                  t \in Titles, x \in SeqsUpTo(BoxChars, MaxBoxText), c \in Columns}
  /\ returned = NoCall

BoxMessage ==
  /\ returned = NoCall
  /\ returned' = << boxMessage(args.title, args.text, args.columns) >>
  /\ UNCHANGED <<progVars, args>>

SpecBox == InitBox /\ [][BoxMessage]_vars

(* the width of a row on the terminal: a frame glyph takes one column, any *)
(* other character what getVisualWidth counts for it                       *)
RECURSIVE displayWidth(_)
displayWidth(row) ==
  IF row = <<>> THEN 0
  ELSE (IF Head(row) \in FrameChars THEN 1 ELSE charWidth(Head(row))) + displayWidth(Tail(row))

(* C36: every row of the box (the top border with the title, each content  *)
(* row, the bottom border) has the same display width; the frame is wide   *)
(* enough for the widest wrapped line and for the title, so the padding of *)
(* a content row and the number of dashes after the title are never        *)
(* negative.                                                               *)
C36_BoxRowsSameWidth ==
  returned # NoCall =>
    LET rows  == splitLines(Ret, <<>>)
        lines == boxLines(args.text, args.columns)
    IN /\ Len(rows) = Len(lines) + 2
       /\ \A i, j \in DOMAIN rows : displayWidth(rows[i]) = displayWidth(rows[j])
       /\ \A i \in DOMAIN lines :
             /\ displayWidth(rows[1]) >= getVisualWidth(lines[i]) + 4
             /\ padding(args.title, lines, lines[i]) >= 0
       /\ displayWidth(rows[1]) >= getVisualWidth(args.title) + 5
       /\ rightDashes(args.title, lines) >= 0

(* a text wrapped into several lines has been boxed under a title that is  *)
(* wider than every line                                                   *)
C36_Witness ==
  /\ returned # NoCall
  /\ args.columns = 5
  /\ args.text = <<"a", "W", "a">>
  /\ args.title = <<"W", "T">>
  /\ Len(splitLines(Ret, <<>>)) = 5

---------------------------------------------------------------------------
(* what the loops of bin/commit-cat.mjs:87-92 and src/ui.js:452-472 have   *)
(* collected after the first n paths of a listing, from the listing alone  *)
RECURSIVE CollectedAfter(_, _)
CollectedAfter(listing, n) ==
  IF n = 0 THEN [fullDiff |-> <<>>, skippedFiles |-> <<>>, totalSize |-> 0]
  ELSE LET prev == CollectedAfter(listing, n - 1)
           k    == listing[n]
           res  == ui_getFileDiff(k)
           text == git_getFileDiff(k)
       IN IF variant = "cat"
          THEN [prev EXCEPT !.fullDiff =
                  Append(@, Seg(n, 7 + FileKind[k].nameLen, text.len, 2, text.isDiff,
                                FileKind[k].diffLen))]
          ELSE IF prev.totalSize >= MAX_TOTAL_SIZE
          THEN [prev EXCEPT !.skippedFiles = Append(@, <<n, "Total Limit">>)]
          ELSE IF res.skip
          THEN [prev EXCEPT !.skippedFiles = Append(@, <<n, res.reason>>)]
          ELSE IF prev.totalSize + res.len > MAX_TOTAL_SIZE
          THEN [prev EXCEPT !.skippedFiles = Append(@, <<n, "Total Limit">>)]
          ELSE [prev EXCEPT !.fullDiff =
                  Append(@, Seg(n, 10 + 2 * FileKind[k].nameLen, res.len, 1, TRUE, res.len)),
                            !.totalSize = @ + res.len]

(* C37: collection is deterministic and read-only: the payload and the     *)
(* list of skipped files with their reasons are a function of the staged   *)
(* listing and of what is read of each path, so two runs over the same     *)
(* listing and contents collect the same; and no step of the collection    *)
(* changes the index or the working tree.                                  *)
C37_CollectionDeterministicReadOnly ==
  /\ [](variant # "smart" =>
          /\ fullDiff = CollectedAfter(stagedFiles, pos).fullDiff
          /\ skippedFiles = CollectedAfter(stagedFiles, pos).skippedFiles
          /\ pos > 0 => stagedFiles = staged)
  /\ [][(pc = "collect") =>
          UNCHANGED <<staged, unstaged, content, tempFile, stageCalls, writes, commitLog,
                      stagedFiles>>]_vars

(* the capped collector has gone through a listing, included a file and    *)
(* skipped others for two different reasons                                *)
C37_Witness ==
  /\ variant = "clack"
  /\ pc = "request"
  /\ pos = Len(stagedFiles)
  /\ fullDiff # <<>>
  /\ \E m, n \in DOMAIN skippedFiles : skippedFiles[m][2] # skippedFiles[n][2]

---------------------------------------------------------------------------
(* One annotate batch: bin/commit-cat.mjs:254-287 and src/ui.js:608-641.   *)
MaxBatch == 2      \* suggestions of the batch

Messages == <<"1", "2", "3", "4">>

(* suggestions i of a list: any of the two files, with or without a line   *)
(* number and a context line                                               *)
BatchFindings(i) ==
  {Finding(Messages[i], path, ln, ctx) :
     path \in {"a.js", "b.py"}, ln \in {<<>>, <<"1">>, <<"3">>}, ctx \in {<<>>, <<"r">>, <<"z">>}}

BatchLists ==
  UNION {{l \in [1..n -> UNION {BatchFindings(i) : i \in 1..n}] :
            \A i \in 1..n : l[i] \in BatchFindings(i)} : n \in 1..MaxBatch}

InitBatch ==
  /\ NoRun
  /\ variant \in {"cat", "clack"}
  /\ args \in {[selected |-> sel, suggestions |-> l, content |-> InitContent] :
                  l \in BatchLists, sel \in SeqsUpTo(1..MaxBatch, MaxBatch)}
  /\ args.selected \in Selections(Len(args.suggestions))
  /\ returned = NoCall

ApplySelected ==
  /\ returned = NoCall
  /\ returned' = << applySelected(args.selected, args.suggestions, BatchStart(args.content)) >>
  /\ UNCHANGED <<progVars, args>>

SpecBatch == InitBatch /\ [][ApplySelected]_vars

(* short is long with some of its elements left out *)
RECURSIVE IsSubsequence(_, _)
IsSubsequence(short, long) ==
  IF short = <<>> THEN TRUE
  ELSE IF long = <<>> THEN FALSE
  ELSE IF Head(short) = Head(long) THEN IsSubsequence(Tail(short), Tail(long))
  ELSE IsSubsequence(short, Tail(long))

(* C38: in one batch each selected suggestion is applied to what the       *)
(* previous ones left in its file: after the batch every file holds its    *)
(* original lines in their original order and, for each suggestion that    *)
(* was applied to it, exactly one comment line more; no insertion is lost. *)
C38_BatchKeepsEveryInsertion ==
  returned # NoCall =>
    /\ Ret.count = Cardinality(Ret.removed)
    /\ Ret.removed \subseteq RangeOf(args.selected)
    /\ \A path \in DOMAIN args.content :
          LET applied == {i \in Ret.removed : args.suggestions[i].filePath = path}
          IN /\ IsSubsequence(args.content[path], Ret.content[path])
             /\ Len(Ret.content[path]) = Len(args.content[path]) + Cardinality(applied)
             /\ \A i \in applied : TodoCountIn(Ret.content, args.suggestions[i]) = 1

(* two suggestions for the same file have both been applied, the second    *)
(* selected first                                                          *)
C38_Witness ==
  /\ returned # NoCall
  /\ args.selected = <<2, 1>>
  /\ args.suggestions[1].filePath = "a.js"
  /\ args.suggestions[2].filePath = "a.js"
  /\ Ret.count = 2
  /\ Len(Ret.content["a.js"]) = Len(InitContent["a.js"]) + 2

---------------------------------------------------------------------------
(* C39: a finding whose context line is not empty and holds white space    *)
(* only matches the first line of any file: the comment is inserted as the *)
(* new first line, behind the indentation of the old first line, and the   *)
(* finding counts as applied, whatever its line number is.                 *)
C39_BlankContextMatchesFirstLine ==
  (/\ returned # NoCall
   /\ args.item.contextLine # <<>>
   /\ \A k \in DOMAIN args.item.contextLine : IsSpace(args.item.contextLine[k])) =>
    /\ Ret.injected
    /\ Tail(Ret.lines) = args.lines
    /\ \E ws \in {SubSeq(args.lines[1], 1, k) : k \in 0..Len(args.lines[1])} :
         /\ IsLeadingSpaceOf(ws, args.lines[1])
         /\ Head(Ret.lines) = ws \o TodoOf(args.item)

(* a blank context line with a line number that points at the second line:  *)
(* the comment has become the first line                                   *)
C39_Witness ==
  /\ returned # NoCall
  /\ variant = "cat"
  /\ args.item.contextLine = <<" ">>
  /\ args.item.lineNumber = <<"2">>
  /\ args.item.filePath = "b.py"
  /\ args.lines = << <<"f">>, <<" ", " ", "r">> >>
  /\ Ret.injected
  /\ Ret.lines = << TodoOf(args.item), <<"f">>, <<" ", " ", "r">> >>
====
